---- MODULE Spec2Model ----
(***************************************************************************)
(* Products API (Express + zod + Azure Cosmos DB + embedding endpoint).    *)
(*                                                                         *)
(* The module models                                                       *)
(*   - the CosmosDB singleton (services/cosmosdbService.ts): initialize(), *)
(*     init(), getProductsContainer();                                     *)
(*   - ProductService (services/productService.ts);                        *)
(*   - startServer (server.ts);                                            *)
(*   - the zod schemas (schemas/productSchema.ts);                         *)
(*   - the six request handlers (controllers/productController.ts), one    *)
(*     action per run of a handler between two awaits, as the JavaScript   *)
(*     event loop runs it.                                                 *)
(* The remote database and the remote embedding endpoint are the           *)
(* environment: each call to them returns or fails nondeterministically.   *)
(***************************************************************************)
EXTENDS Integers, Sequences, FiniteSets, TLC

(***************************************************************************)
(* Bounds of the model.                                                    *)
(***************************************************************************)
\* callers of CosmosDB.initialize() in the library-level specification
NumCallers == 3
\* initialize() calls issued in total in the library-level specification
MaxInitCalls == 4

Callers == 1..NumCallers

VARIABLES
    \* ---- CosmosDB singleton (cosmosdbService.ts:17-22)
    initialized,        \* private initialized: boolean
    initializing,       \* private initializing: Promise<void> | null; 0 is null,
                        \* k > 0 is the promise returned by the k-th run of init()
    productsContainer,  \* private productsContainer: "undefined" or the container
    initRun,            \* the runs of init(): sequence of "awaitDatabase",
                        \* "awaitContainer", "fulfilled", and, rejected,
                        \* "databaseFailed" or "containerFailed"
    dbCreateCalls,      \* client.databases.createIfNotExists calls issued
    containerCreateCalls, \* database.containers.createIfNotExists calls issued
    \* ---- callers of the singleton's public API
    caller,             \* per caller: what it is doing with initialize()
    initCalls,          \* initialize() calls made so far
    probe,              \* outcome of the last direct store operation
    \* ---- the server process (server.ts)
    server,             \* startServer: its pc, the init run it awaits, the exit code
    services,           \* app.locals.services: the productService's container, or absent
    \* ---- the remote collection and the uuid source
    docs,               \* the documents of productsContainer
    nextUuid,           \* uuidv4() calls made so far
    \* ---- requests being handled
    req,                \* per connection slot: the request, the handler's locals and pc
    arrivals,           \* requests accepted so far
    created             \* ghost: per id, the body of the create request answered 201

cosmosVars == <<initialized, initializing, productsContainer, initRun,
                dbCreateCalls, containerCreateCalls>>
callerVars == <<caller, initCalls, probe>>
serverVars == <<server, services>>
storeVars == <<docs, nextUuid>>
reqVars == <<req, arrivals, created>>
vars == <<cosmosVars, callerVars, serverVars, storeVars, reqVars>>

NotInitializedError == "CosmosDB has not been initialized. Call initialize() first."
TypeErrorUndefined == "TypeError: Cannot read properties of undefined"

(***************************************************************************)
(* CosmosDB.getContainer / getProductsContainer: the container, or the     *)
(* error thrown.                                                           *)
(***************************************************************************)
GetContainerUnchecked(init, container) ==
    [threw |-> FALSE, error |-> "", container |-> container]

getContainer(init, container) ==
    IF ~init
    THEN [threw |-> TRUE, error |-> NotInitializedError, container |-> "undefined"]
    ELSE [threw |-> FALSE, error |-> "", container |-> container]

getProductsContainer == getContainer(initialized, productsContainer)

(***************************************************************************)
(* new ProductService(): the instance holds the container reference, or    *)
(* the constructor throws what getProductsContainer throws.                *)
(***************************************************************************)
ProductServiceConstructor ==
    LET c == getProductsContainer
    IN  IF c.threw
        THEN [threw |-> TRUE, error |-> c.error, container |-> "undefined"]
        ELSE [threw |-> FALSE, error |-> "", container |-> c.container]

\* services/index.ts: initializeServices() builds { productService: new ProductService() }
initializeServices == ProductServiceConstructor

(***************************************************************************)
(* JSON values as the handlers see them: a tag t (what typeof / Array.     *)
(* isArray tell) and the value v.                                          *)
(***************************************************************************)
Undefined == [t |-> "undefined", v |-> ""]
Null      == [t |-> "null", v |-> ""]
Str(s)    == [t |-> "string", v |-> s]
Num(n)    == [t |-> "number", v |-> n]
Arr(a)    == [t |-> "array", v |-> a]
Obj(o)    == [t |-> "object", v |-> o]

\* the strings that have the shape of a UUID: two a client may send, and the
\* ones uuidv4() hands out
ClientUUIDs == {"uuid-A", "uuid-B"}
GeneratedUUID(n) == "uuid-G" \o ToString(n)
IsUUID(s) == s \in ClientUUIDs \/ \E n \in 1..9 : s = GeneratedUUID(n)
\* the strings that parse as a URL
IsURL(s) == s \in {"https://example.com/images/products/SKU-1010.jpg"}

(***************************************************************************)
(* schemas/productSchema.ts: productSchema, field by field in the order of *)
(* the z.object shape.                                                     *)
(***************************************************************************)
productSchema == <<
    [key |-> "id",               kind |-> "uuid",        optional |-> TRUE],
    [key |-> "name",             kind |-> "string",      optional |-> FALSE],
    [key |-> "brand",            kind |-> "string",      optional |-> FALSE],
    [key |-> "sku",              kind |-> "string",      optional |-> FALSE],
    [key |-> "category",         kind |-> "string",      optional |-> FALSE],
    [key |-> "price",            kind |-> "number",      optional |-> FALSE],
    [key |-> "currency",         kind |-> "string",      optional |-> FALSE],
    [key |-> "stock",            kind |-> "number",      optional |-> FALSE],
    [key |-> "description",      kind |-> "string",      optional |-> FALSE],
    [key |-> "features",         kind |-> "string",      optional |-> FALSE],
    [key |-> "rating",           kind |-> "number",      optional |-> FALSE],
    [key |-> "reviewsCount",     kind |-> "number",      optional |-> FALSE],
    [key |-> "tags",             kind |-> "stringArray", optional |-> FALSE],
    [key |-> "imageUrl",         kind |-> "url",         optional |-> FALSE],
    [key |-> "manufacturer",     kind |-> "string",      optional |-> FALSE],
    [key |-> "model",            kind |-> "string",      optional |-> FALSE],
    [key |-> "releaseDate",      kind |-> "string",      optional |-> FALSE],
    [key |-> "warranty",         kind |-> "string",      optional |-> FALSE],
    [key |-> "dimensions",       kind |-> "dimensions",  optional |-> TRUE],
    [key |-> "color",            kind |-> "string",      optional |-> FALSE],
    [key |-> "material",         kind |-> "string",      optional |-> FALSE],
    [key |-> "origin",           kind |-> "string",      optional |-> FALSE],
    [key |-> "descriptionVector", kind |-> "numberArray", optional |-> TRUE],
    [key |-> "imageVector",      kind |-> "numberArray", optional |-> TRUE],
    [key |-> "tagsVector",       kind |-> "numberArray", optional |-> TRUE],
    [key |-> "featuresVector",   kind |-> "numberArray", optional |-> TRUE],
    [key |-> "dimensionsVector", kind |-> "numberArray", optional |-> TRUE] >>

SchemaKeys == {productSchema[i].key : i \in 1..Len(productSchema)}
VectorKeys == {"descriptionVector", "imageVector", "tagsVector", "featuresVector",
               "dimensionsVector"}
DimensionKeys == <<"weight", "width", "height", "depth">>
\* a key no schema declares
ExtraKey == "extra"
\* the keys a request body of the model may carry
BodyKeys == SchemaKeys \cup {ExtraKey}

\* err.path.join('.')
RECURSIVE JoinPath(_)
JoinPath(path) ==
    IF Len(path) = 0 THEN ""
    ELSE IF Len(path) = 1 THEN path[1]
    ELSE path[1] \o "." \o JoinPath(Tail(path))

Issue(path, message) == [path |-> path, message |-> message]
Expected(what, val) ==
    IF val.t = "undefined" THEN "Required"
    ELSE "Expected " \o what \o ", received " \o val.t

\* the issues of the elements of an array, each under path <<key, index>>
RECURSIVE ElementIssues(_, _, _, _)
ElementIssues(prefix, elems, what, i) ==
    IF i > Len(elems) THEN <<>>
    ELSE (IF elems[i].t = what THEN <<>>
          ELSE <<Issue(prefix \o <<ToString(i - 1)>>, Expected(what, elems[i]))>>)
         \o ElementIssues(prefix, elems, what, i + 1)

\* the issues of the members of the dimensions object
RECURSIVE MemberIssues(_, _, _)
MemberIssues(prefix, obj, i) ==
    IF i > Len(DimensionKeys) THEN <<>>
    ELSE (IF obj[DimensionKeys[i]].t = "string" THEN <<>>
          ELSE <<Issue(prefix \o <<DimensionKeys[i]>>,
                       Expected("string", obj[DimensionKeys[i]]))>>)
         \o MemberIssues(prefix, obj, i + 1)

\* the issues zod raises for value val under a schema of the given kind
KindIssues(path, kind, val) ==
    CASE kind = "string" ->
            IF val.t = "string" THEN <<>> ELSE <<Issue(path, Expected("string", val))>>
      [] kind = "uuid" ->
            IF val.t # "string" THEN <<Issue(path, Expected("string", val))>>
            ELSE IF IsUUID(val.v) THEN <<>> ELSE <<Issue(path, "Invalid uuid")>>
      [] kind = "url" ->
            IF val.t # "string" THEN <<Issue(path, Expected("string", val))>>
            ELSE IF IsURL(val.v) THEN <<>> ELSE <<Issue(path, "Invalid url")>>
      [] kind = "number" ->
            IF val.t = "number" THEN <<>> ELSE <<Issue(path, Expected("number", val))>>
      [] kind = "stringArray" ->
            IF val.t # "array" THEN <<Issue(path, Expected("array", val))>>
            ELSE ElementIssues(path, val.v, "string", 1)
      [] kind = "numberArray" ->
            IF val.t # "array" THEN <<Issue(path, Expected("array", val))>>
            ELSE ElementIssues(path, val.v, "number", 1)
      [] kind = "dimensions" ->
            IF val.t # "object" THEN <<Issue(path, Expected("object", val))>>
            ELSE MemberIssues(path, val.v, 1)

FieldIssues(field, val) ==
    IF val.t = "undefined" /\ field.optional THEN <<>>
    ELSE KindIssues(<<field.key>>, field.kind, val)

\* a parse that stops at the first field that has issues
RECURSIVE SchemaIssuesFirstOnly(_, _, _)
SchemaIssuesFirstOnly(schema, body, i) ==
    IF i > Len(schema) THEN <<>>
    ELSE IF FieldIssues(schema[i], body[schema[i].key]) # <<>>
    THEN FieldIssues(schema[i], body[schema[i].key])
    ELSE SchemaIssuesFirstOnly(schema, body, i + 1)

\* z.object(shape).safeParse(body): every field is checked, the issues of
\* all of them are collected in shape order
RECURSIVE SchemaIssues(_, _, _)
SchemaIssues(schema, body, i) ==
    IF i > Len(schema) THEN <<>>
    ELSE FieldIssues(schema[i], body[schema[i].key]) \o SchemaIssues(schema, body, i + 1)

\* a parsed output that loses the nested object
ParsedDataLossy(schema, body) ==
    [k \in {schema[i].key : i \in 1..Len(schema)} |->
        IF k = "dimensions" THEN Undefined ELSE body[k]]

\* the parsed output: the declared keys only (z.object strips the others)
ParsedData(schema, body) ==
    [k \in {schema[i].key : i \in 1..Len(schema)} |-> body[k]]

safeParse(schema, body) ==
    LET issues == SchemaIssues(schema, body, 1)
    IN  [success |-> issues = <<>>,
         errors  |-> issues,
         data    |-> IF issues = <<>> THEN ParsedData(schema, body) ELSE Undefined]

\* an id schema that takes any string
ProductIDSchemaAnyString == << [key |-> "id", kind |-> "string", optional |-> FALSE] >>

\* schemas/productSchema.ts: productIDSchema, tagsSchema, featuresSchema
productIDSchema == << [key |-> "id", kind |-> "uuid", optional |-> FALSE] >>
tagsSchema == << [key |-> "tags", kind |-> "stringArray", optional |-> FALSE] >>
featuresSchema == << [key |-> "tags", kind |-> "stringArray", optional |-> FALSE] >>

(***************************************************************************)
(* JavaScript helpers the handlers use.                                    *)
(***************************************************************************)
\* truthiness of a value in a condition
Truthy(val) ==
    CASE val.t \in {"undefined", "null"} -> FALSE
      [] val.t = "string" -> val.v # ""
      [] val.t = "number" -> val.v # 0
      [] OTHER -> TRUE

\* Array.prototype.join(' ') on an array of strings
RECURSIVE JoinSpace(_)
JoinSpace(elems) ==
    IF Len(elems) = 0 THEN ""
    ELSE IF Len(elems) = 1 THEN elems[1].v
    ELSE elems[1].v \o " " \o JoinSpace(Tail(elems))

(***************************************************************************)
(* CosmosDB.initialize() and init() (cosmosdbService.ts:45-82).            *)
(***************************************************************************)
\* init() up to its first await: the database-creation call is issued
init ==
    /\ initRun' = Append(initRun, "awaitDatabase")
    /\ dbCreateCalls' = dbCreateCalls + 1
    /\ UNCHANGED <<initialized, productsContainer, containerCreateCalls>>

\* initialize() without the in-flight guard
InitializeUnguarded(awaited) ==
    IF initialized
    THEN awaited = 0 /\ UNCHANGED cosmosVars
    ELSE init /\ initializing' = Len(initRun) + 1 /\ awaited = Len(initRun) + 1

\* initialize() with a guard that a failed run of init() clears
InitializeRetrying(awaited) ==
    IF initialized
    THEN awaited = 0 /\ UNCHANGED cosmosVars
    ELSE IF initializing # 0
            /\ initRun[initializing] \notin {"databaseFailed", "containerFailed"}
    THEN awaited = initializing /\ UNCHANGED cosmosVars
    ELSE init /\ initializing' = Len(initRun) + 1 /\ awaited = Len(initRun) + 1

\* initialize(): awaited is the run of init() whose promise the caller gets,
\* 0 when the call returns at once
initialize(awaited) ==
    IF initialized
    THEN awaited = 0 /\ UNCHANGED cosmosVars
    ELSE IF initializing # 0
    THEN awaited = initializing /\ UNCHANGED cosmosVars
    ELSE init /\ initializing' = Len(initRun) + 1 /\ awaited = Len(initRun) + 1

\* init() resumes: the database exists, the container-creation call is issued
DatabaseCreateReturns(k) ==
    /\ initRun[k] = "awaitDatabase"
    /\ initRun' = [initRun EXCEPT ![k] = "awaitContainer"]
    /\ containerCreateCalls' = containerCreateCalls + 1
    /\ UNCHANGED <<initialized, initializing, productsContainer, dbCreateCalls>>

\* init() resumes in its catch block: logs and rethrows
DatabaseCreateFails(k) ==
    /\ initRun[k] = "awaitDatabase"
    /\ initRun' = [initRun EXCEPT ![k] = "databaseFailed"]
    /\ UNCHANGED <<initialized, initializing, productsContainer, dbCreateCalls,
                   containerCreateCalls>>

\* init() resumes: the container is kept and initialized is set
ContainerCreateReturns(k) ==
    /\ initRun[k] = "awaitContainer"
    /\ productsContainer' = "productsContainer"
    /\ initialized' = TRUE
    /\ initRun' = [initRun EXCEPT ![k] = "fulfilled"]
    /\ UNCHANGED <<initializing, dbCreateCalls, containerCreateCalls>>

ContainerCreateFails(k) ==
    /\ initRun[k] = "awaitContainer"
    /\ initRun' = [initRun EXCEPT ![k] = "containerFailed"]
    /\ UNCHANGED <<initialized, initializing, productsContainer, dbCreateCalls,
                   containerCreateCalls>>

\* the remote database answers a call of some run of init()
InitProgress ==
    \E k \in 1..Len(initRun) :
        \/ DatabaseCreateReturns(k)
        \/ DatabaseCreateFails(k)
        \/ ContainerCreateReturns(k)
        \/ ContainerCreateFails(k)

\* the state of the promise of run k (0: a call that returned at once)
Settled(k) == k = 0 \/ initRun[k] \in {"fulfilled", "databaseFailed", "containerFailed"}
Outcome(k) == IF k = 0 \/ initRun[k] = "fulfilled" THEN "fulfilled" ELSE "rejected"

(***************************************************************************)
(* The remote collection, as the Cosmos DB client presents it.  A call     *)
(* takes its fate from the environment: "ok" (the store executes it) or    *)
(* "fail" (network, auth, throttling, ...: the client throws).             *)
(***************************************************************************)
StoreFates == {"ok", "fail"}
\* the contents of the errors the store client and the embedding client throw
ConflictError == [code |-> 409, message |-> "Entity with the specified id already exists"]
NotFoundError == [code |-> 404, message |-> "Entity with the specified id does not exist"]
UpstreamErrors == {[code |-> 503, message |-> "Service Unavailable"],
                   [code |-> 401, message |-> "Unauthorized"]}
TypeErrorThrown == [code |-> 0, message |-> TypeErrorUndefined]
NoError == [code |-> 0, message |-> ""]

\* what the environment decides about a call: its fate and, when it fails,
\* the error thrown
StoreOutcomes ==
    {[fate |-> "ok", err |-> NoError]} \cup {[fate |-> "fail", err |-> e] : e \in UpstreamErrors}
ReadOutcomes ==
    StoreOutcomes \cup {[fate |-> "throwNotFound", err |-> NotFoundError]}

HasId(d, id) == \E i \in 1..Len(d) : d[i]["id"].v = id
DocWithId(d, id) == d[CHOOSE i \in 1..Len(d) : d[i]["id"].v = id]

\* a create that takes a document whatever its id
ItemsCreateNoConflict(d, product, fate, err) ==
    IF fate = "fail" THEN [threw |-> TRUE, error |-> err, resource |-> <<>>, docs |-> d]
    ELSE [threw |-> FALSE, error |-> NoError, resource |-> <<product>>,
          docs |-> Append(d, product)]

\* a create that replaces the document stored under the id
ItemsCreateUpsert(d, product, fate, err) ==
    IF fate = "fail" THEN [threw |-> TRUE, error |-> err, resource |-> <<>>, docs |-> d]
    ELSE IF HasId(d, product["id"].v)
    THEN [threw |-> FALSE, error |-> NoError, resource |-> <<product>>,
          docs |-> [i \in 1..Len(d) |->
                       IF d[i]["id"] = product["id"] THEN product ELSE d[i]]]
    ELSE [threw |-> FALSE, error |-> NoError, resource |-> <<product>>,
          docs |-> Append(d, product)]

\* container.items.create(product): a document per id (the partition key is
\* /id, and the id is unique in its partition)
ItemsCreate(d, product, fate, err) ==
    IF fate = "fail" THEN [threw |-> TRUE, error |-> err, resource |-> <<>>, docs |-> d]
    ELSE IF HasId(d, product["id"].v)
    THEN [threw |-> TRUE, error |-> ConflictError, resource |-> <<>>, docs |-> d]
    ELSE [threw |-> FALSE, error |-> NoError, resource |-> <<product>>,
          docs |-> Append(d, product)]

\* a read that does not look at the id: the first document of the collection
ItemReadFirst(d, id, fate, err) ==
    IF fate = "fail" THEN [threw |-> TRUE, error |-> err, resource |-> <<>>]
    ELSE IF Len(d) > 0
    THEN [threw |-> FALSE, error |-> NoError, resource |-> <<d[1]>>]
    ELSE [threw |-> FALSE, error |-> NoError, resource |-> <<>>]

\* container.item(id, id).read(): the document, or no resource.  A client
\* that reports a missing item by throwing does so with code 404
ItemRead(d, id, fate, err) ==
    IF fate = "fail" THEN [threw |-> TRUE, error |-> err, resource |-> <<>>]
    ELSE IF HasId(d, id)
    THEN [threw |-> FALSE, error |-> NoError, resource |-> <<DocWithId(d, id)>>]
    ELSE IF fate = "throwNotFound"
    THEN [threw |-> TRUE, error |-> NotFoundError, resource |-> <<>>]
    ELSE [threw |-> FALSE, error |-> NoError, resource |-> <<>>]

\* the projection of getProducts and of the three searches
ProjectionKeys == SchemaKeys \ VectorKeys
\* a projection that returns the whole document
ProjectAll(doc) == doc
Project(doc) == [k \in ProjectionKeys |-> doc[k]]

(***************************************************************************)
(* ProductService (productService.ts:64-248).  A method called on an       *)
(* instance whose container is undefined throws a TypeError before any     *)
(* call is issued.  A result is a sequence of records: <<>> is             *)
(* undefined/null.                                                         *)
(***************************************************************************)
NoContainer(container) == container # "productsContainer"

\* an addProduct that answers a conflict with the document already stored
AddProductIdempotent(container, d, product, fate, err) ==
    IF NoContainer(container)
    THEN [threw |-> TRUE, error |-> TypeErrorThrown, value |-> <<>>, docs |-> d,
          issued |-> FALSE]
    ELSE LET r == ItemsCreate(d, product, fate, err)
         IN  IF r.threw /\ r.error = ConflictError
             THEN [threw |-> FALSE, error |-> NoError,
                   value |-> <<DocWithId(d, product["id"].v)>>, docs |-> d,
                   issued |-> TRUE]
             ELSE [threw |-> r.threw, error |-> r.error, value |-> r.resource,
                   docs |-> r.docs, issued |-> TRUE]

\* an addProduct that leaves the new product as the only document
AddProductReplacing(container, d, product, fate, err) ==
    IF NoContainer(container)
    THEN [threw |-> TRUE, error |-> TypeErrorThrown, value |-> <<>>, docs |-> d,
          issued |-> FALSE]
    ELSE LET r == ItemsCreate(d, product, fate, err)
         IN  [threw |-> r.threw, error |-> r.error, value |-> r.resource,
              docs |-> IF r.threw THEN d ELSE <<product>>, issued |-> TRUE]

addProduct(container, d, product, fate, err) ==
    IF NoContainer(container)
    THEN [threw |-> TRUE, error |-> TypeErrorThrown, value |-> <<>>, docs |-> d,
          issued |-> FALSE]
    ELSE LET r == ItemsCreate(d, product, fate, err)
         IN  [threw |-> r.threw, error |-> r.error, value |-> r.resource,
              docs |-> r.docs, issued |-> TRUE]

\* getProductById that turns every failure of the read into null
GetProductByIdSwallow(container, d, id, fate, err) ==
    IF NoContainer(container)
    THEN [threw |-> TRUE, error |-> TypeErrorThrown, value |-> <<>>, docs |-> d,
          issued |-> FALSE]
    ELSE LET r == ItemRead(d, id, fate, err)
         IN  [threw |-> FALSE, error |-> NoError, value |-> r.resource, docs |-> d,
              issued |-> TRUE]

getProductById(container, d, id, fate, err) ==
    IF NoContainer(container)
    THEN [threw |-> TRUE, error |-> TypeErrorThrown, value |-> <<>>, docs |-> d,
          issued |-> FALSE]
    ELSE LET r == ItemRead(d, id, fate, err)
         IN  IF r.threw /\ r.error.code = 404
             THEN [threw |-> FALSE, error |-> NoError, value |-> <<>>, docs |-> d,
                   issued |-> TRUE]
             ELSE [threw |-> r.threw, error |-> r.error, value |-> r.resource,
                   docs |-> d, issued |-> TRUE]

getProducts(container, d, fate, err) ==
    IF NoContainer(container)
    THEN [threw |-> TRUE, error |-> TypeErrorThrown, value |-> <<>>, docs |-> d,
          issued |-> FALSE]
    ELSE IF fate = "fail"
    THEN [threw |-> TRUE, error |-> err, value |-> <<>>, docs |-> d, issued |-> TRUE]
    ELSE [threw |-> FALSE, error |-> NoError,
          value |-> [i \in 1..Len(d) |-> Project(d[i])], docs |-> d, issued |-> TRUE]

(***************************************************************************)
(* The vector query of the store: VectorDistance over the cosine vector    *)
(* policy of the container (cosmosdbService.ts:94-111), ORDER BY it, TOP.  *)
(* Vectors of the model have non-negative integer components.              *)
(***************************************************************************)
IsNumberArray(val) ==
    val.t = "array" /\ \A i \in 1..Len(val.v) : val.v[i].t = "number"

RECURSIVE DotFrom(_, _, _)
DotFrom(a, b, i) ==
    IF i > Len(a) \/ i > Len(b) THEN 0
    ELSE a[i].v * b[i].v + DotFrom(a, b, i + 1)
Dot(a, b) == DotFrom(a, b, 1)

\* the cosine of the angle of a and q, squared, as a fraction
CosineSquared(a, q) ==
    [num |-> Dot(a, q) * Dot(a, q), den |-> Dot(a, a) * Dot(q, q)]
\* fraction x is greater than fraction y (denominators positive)
FracGreater(x, y) == x.num * y.den > y.num * x.den

\* the documents the query can rank: those whose vector at key is comparable
\* with the query vector
Rankable(doc, key, q) ==
    /\ IsNumberArray(doc[key])
    /\ Len(doc[key].v) = Len(q.v)
    /\ Dot(doc[key].v, doc[key].v) > 0

\* a ranking that puts the least similar first
RECURSIVE InsertRankedLeastFirst(_, _, _, _)
InsertRankedLeastFirst(ranked, doc, key, q) ==
    IF ranked = <<>> THEN <<doc>>
    ELSE IF FracGreater(CosineSquared(Head(ranked)[key].v, q.v),
                        CosineSquared(doc[key].v, q.v))
    THEN <<doc>> \o ranked
    ELSE <<Head(ranked)>> \o InsertRankedLeastFirst(Tail(ranked), doc, key, q)

\* insert doc into a ranked sequence, after the documents at least as similar
RECURSIVE InsertRanked(_, _, _, _)
InsertRanked(ranked, doc, key, q) ==
    IF ranked = <<>> THEN <<doc>>
    ELSE IF FracGreater(CosineSquared(doc[key].v, q.v),
                        CosineSquared(Head(ranked)[key].v, q.v))
    THEN <<doc>> \o ranked
    ELSE <<Head(ranked)>> \o InsertRanked(Tail(ranked), doc, key, q)

\* ORDER BY VectorDistance(c[key], @queryVector): the most similar first
RECURSIVE Ranked(_, _, _, _)
Ranked(d, key, q, n) ==
    IF n = 0 THEN <<>>
    ELSE IF Rankable(d[n], key, q)
    THEN InsertRanked(Ranked(d, key, q, n - 1), d[n], key, q)
    ELSE Ranked(d, key, q, n - 1)

Min(a, b) == IF a < b THEN a ELSE b

\* SELECT TOP @top <projection>, VectorDistance(...) AS SimilarityScore
VectorQuery(d, key, q, top) ==
    LET ranked == Ranked(d, key, q, Len(d))
    IN  [i \in 1..Min(top, Len(ranked)) |->
            [doc |-> Project(ranked[i]),
             SimilarityScore |-> CosineSquared(ranked[i][key].v, q.v)]]

\* a search whose query does not carry the top it was given
SearchProductsByVectorNoTop(container, d, key, queryVector, top, fate, err) ==
    IF NoContainer(container)
    THEN [threw |-> TRUE, error |-> TypeErrorThrown, value |-> <<>>, docs |-> d,
          issued |-> FALSE]
    ELSE IF fate = "fail" \/ ~IsNumberArray(queryVector)
              \/ Dot(queryVector.v, queryVector.v) = 0
    THEN [threw |-> TRUE, error |-> err, value |-> <<>>, docs |-> d, issued |-> TRUE]
    ELSE [threw |-> FALSE, error |-> NoError,
          value |-> VectorQuery(d, key, queryVector, Len(d)), docs |-> d, issued |-> TRUE]

\* the three search methods differ in the vector field only
searchProductsByVector(container, d, key, queryVector, top, fate, err) ==
    IF NoContainer(container)
    THEN [threw |-> TRUE, error |-> TypeErrorThrown, value |-> <<>>, docs |-> d,
          issued |-> FALSE]
    ELSE IF fate = "fail" \/ ~IsNumberArray(queryVector)
              \/ Dot(queryVector.v, queryVector.v) = 0
    THEN [threw |-> TRUE, error |-> err, value |-> <<>>, docs |-> d, issued |-> TRUE]
    ELSE [threw |-> FALSE, error |-> NoError,
          value |-> VectorQuery(d, key, queryVector, top), docs |-> d, issued |-> TRUE]

searchProductsByDescriptionVector(container, d, queryVector, top, fate, err) ==
    searchProductsByVector(container, d, "descriptionVector", queryVector, top, fate, err)
searchProductsByTagsVector(container, d, queryVector, top, fate, err) ==
    searchProductsByVector(container, d, "tagsVector", queryVector, top, fate, err)
searchProductsByFeaturesVector(container, d, queryVector, top, fate, err) ==
    searchProductsByVector(container, d, "featuresVector", queryVector, top, fate, err)

(***************************************************************************)
(* The embedding endpoint (embeddingService.ts:10-22): a call returns      *)
(* response.data.data[0].embedding verbatim, or throws.  The endpoint is a *)
(* function of its input: for a non-empty text it answers with the         *)
(* embedding of the text (or fails); for any other input it may also       *)
(* answer with a body that has no embedding in it.                         *)
(***************************************************************************)
EmbeddingOf(input) ==
    IF input.t # "string" THEN Arr(<<Num(1), Num(1)>>)
    ELSE CASE input.v \in {"Smart LED light bulbs", "smart lighting"} ->
                 Arr(<<Num(2), Num(1)>>)
           [] input.v \in {"Wireless charging pad", "charging wireless"} ->
                 Arr(<<Num(1), Num(2)>>)
           [] input.v \in {"Qi-Compatible, Fast Charging", "Voice Remote"} ->
                 Arr(<<Num(0), Num(1)>>)
           [] OTHER -> Arr(<<Num(1), Num(0)>>)

\* what generateTextVector can return for an input when it does not throw
EmbeddingResults(input) ==
    IF input.t = "string" /\ input.v # "" THEN {EmbeddingOf(input)}
    ELSE {EmbeddingOf(input), Undefined}
\* the input of the embedding call a handler is suspended in
LastInput(r) ==
    IF r.embedInputs = <<>> THEN Undefined ELSE r.embedInputs[Len(r.embedInputs)]

(***************************************************************************)
(* Requests.  A slot holds one request: its input, the locals of its       *)
(* handler, where the handler is suspended, and the response sent.         *)
(***************************************************************************)
\* connection slots: requests handled concurrently
NumSlots == 2
\* requests accepted in a run of the model
MaxRequests == 3
Slots == 1..NumSlots

EmptyBody == [k \in BodyKeys |-> Undefined]
NoProduct == [k \in SchemaKeys |-> Undefined]
NoResponse == [code |-> 0, status |-> "", message |-> "", errors |-> <<>>, data |-> <<>>]

IdleSlot ==
    [route |-> "none", pc |-> "idle",
     body |-> EmptyBody, id |-> "", query |-> Undefined, top |-> Undefined,
     product |-> NoProduct, stage |-> 0, vector |-> Undefined, topResults |-> 0,
     response |-> NoResponse,
     \* ghosts: the calls the request issued, the embedding calls that have
     \* returned or thrown, what failed ("embedding",
     \* "store", "conflict": the id was taken, "parse": the body was not JSON),
     \* the error its failed call threw, whether its store call changed the
     \* collection, the creates answered before it
     embedCalls |-> 0, embedSettled |-> 0, storeCalls |-> 0, embedInputs |-> <<>>,
     failed |-> "none", error |-> NoError, wrote |-> FALSE, createdBefore |-> 0]

\* res.status(code).json({status, data})
JsonData(code, data) ==
    [code |-> code, status |-> "success", message |-> "", errors |-> <<>>, data |-> data]
\* res.status(code).json({status: 'error', message})
JsonMessage(code, message) ==
    [code |-> code, status |-> "error", message |-> message, errors |-> <<>>, data |-> <<>>]
\* res.status(400).json({status: 'error', errors})
JsonErrors(code, errors) ==
    [code |-> code, status |-> "error", message |-> "", errors |-> errors, data |-> <<>>]

InternalServerError == JsonMessage(500, "Internal Server Error")

\* parseResult.error.errors.map(err => ({path: err.path.join('.'), message}))
MapErrors(issues) ==
    [i \in 1..Len(issues) |->
        [path |-> JoinPath(issues[i].path), message |-> issues[i].message]]

\* the handler sends its response and ends
Respond(r, response) ==
    [r EXCEPT !.pc = "responded", !.response = response]

\* the record of a request that arrives now
NewRequest(route) ==
    [IdleSlot EXCEPT !.route = route, !.createdBefore = Len(created)]

\* a slot takes a request when the server listens and the slot is free
SlotFree(s) == req[s].pc \in {"idle", "responded"}
CanArrive(s) ==
    /\ server.pc = "listening"
    /\ arrivals < MaxRequests
    /\ SlotFree(s)
    /\ \A t \in Slots : t < s => ~SlotFree(t)

(***************************************************************************)
(* createProduct (productController.ts:81-134).                            *)
(***************************************************************************)
StageVectorKey == <<"descriptionVector", "tagsVector", "featuresVector">>
StoreStage == 4

\* conditions that take an empty tags array for tags to embed
StageAppliesTruthyTags(product, st) ==
    CASE st = 1 -> Truthy(product["description"])
      [] st = 2 -> Truthy(product["tags"])
      [] st = 3 -> Truthy(product["features"])

\* the conditions of lines 106, 111 and 117
StageApplies(product, st) ==
    CASE st = 1 -> Truthy(product["description"])
      [] st = 2 -> Truthy(product["tags"]) /\ Len(product["tags"].v) > 0
      [] st = 3 -> Truthy(product["features"])

\* the text handed to generateTextVector at lines 107, 113 and 118
StageText(product, st) ==
    CASE st = 1 -> product["description"].v
      [] st = 2 -> JoinSpace(product["tags"].v)
      [] st = 3 -> product["features"].v

RECURSIVE NextStage(_, _)
NextStage(product, from) ==
    IF from >= StoreStage THEN StoreStage
    ELSE IF StageApplies(product, from) THEN from
    ELSE NextStage(product, from + 1)

\* lines 101-103 with the id always replaced
AssignIdAlways(product, uuid) == [product EXCEPT !["id"] = Str(uuid)]

\* lines 101-103: if (!product.id) product.id = uuidv4()
AssignId(product, uuid) ==
    IF ~Truthy(product["id"]) THEN [product EXCEPT !["id"] = Str(uuid)] ELSE product

\* the texts lines 107, 113 and 118 hand to generateTextVector from stage
\* `from` on, in the order of the code
RECURSIVE StageTexts(_, _)
StageTexts(product, from) ==
    IF from >= StoreStage THEN <<>>
    ELSE IF StageApplies(product, from)
    THEN <<Str(StageText(product, from))>> \o StageTexts(product, from + 1)
    ELSE StageTexts(product, from + 1)

\* a createProduct that starts all its embedding calls at once and then
\* awaits them one by one
CreateProceedConcurrent(r, container, from) ==
    LET st == NextStage(r.product, from)
    IN  IF st < StoreStage
        THEN [r EXCEPT !.pc = "awaitEmbed", !.stage = st,
                       !.embedCalls = IF from = 1
                                      THEN Len(StageTexts(r.product, 1)) ELSE @,
                       !.embedInputs = IF from = 1
                                       THEN StageTexts(r.product, 1) ELSE @]
        ELSE IF NoContainer(container)
        THEN Respond([r EXCEPT !.stage = st], InternalServerError)
        ELSE [r EXCEPT !.pc = "awaitStore", !.stage = st, !.storeCalls = @ + 1]

\* the handler runs on from stage `from` to its next await: the next
\* embedding call, or the store call of line 121
CreateProceed(r, container, from) ==
    LET st == NextStage(r.product, from)
    IN  IF st < StoreStage
        THEN [r EXCEPT !.pc = "awaitEmbed", !.stage = st,
                       !.embedCalls = @ + 1,
                       !.embedInputs = Append(@, Str(StageText(r.product, st)))]
        ELSE IF NoContainer(container)
        THEN Respond([r EXCEPT !.stage = st], InternalServerError)
        ELSE [r EXCEPT !.pc = "awaitStore", !.stage = st, !.storeCalls = @ + 1]

\* createProduct whose catch block swallows a failed embedding call and goes on
CreateEmbeddingFailedGoOn(r, container) ==
    CreateProceed([r EXCEPT !.failed = "embedding", !.embedSettled = @ + 1],
                  container, r.stage + 1)

\* lines 127-133: the catch block after a failed embedding call
CreateEmbeddingFailed(r, container) ==
    Respond([r EXCEPT !.failed = "embedding", !.embedSettled = @ + 1],
            InternalServerError)

\* POST /products: lines 82-121 up to the first await
CreateProductArrives(s, body) ==
    /\ CanArrive(s)
    /\ arrivals' = arrivals + 1
    /\ LET parseResult == safeParse(productSchema, body)
           r0 == [NewRequest("create") EXCEPT !.body = body]
       IN  IF ~parseResult.success
           THEN /\ req' = [req EXCEPT ![s] =
                               Respond(r0, JsonErrors(400, MapErrors(parseResult.errors)))]
                /\ UNCHANGED nextUuid
           ELSE LET fresh == ~Truthy(parseResult.data["id"])
                    product == AssignId(parseResult.data, GeneratedUUID(nextUuid + 1))
                IN  /\ nextUuid' = IF fresh THEN nextUuid + 1 ELSE nextUuid
                    /\ req' = [req EXCEPT ![s] =
                                   CreateProceed([r0 EXCEPT !.product = product],
                                                 services.container, 1)]
    /\ UNCHANGED <<cosmosVars, callerVars, serverVars, docs, created>>

\* a createProduct that keeps a vector the client supplied
CreateEmbeddingReturnsKeepsOwn(s, vector) ==
    /\ req[s].route = "create" /\ req[s].pc = "awaitEmbed"
    /\ LET r == req[s]
           key == StageVectorKey[r.stage]
           product == IF r.product[key] = Undefined
                      THEN [r.product EXCEPT ![key] = vector] ELSE r.product
       IN  req' = [req EXCEPT ![s] =
                      CreateProceed([r EXCEPT !.product = product,
                                              !.embedSettled = @ + 1],
                                    services.container, r.stage + 1)]
    /\ UNCHANGED <<cosmosVars, callerVars, serverVars, storeVars, arrivals, created>>

\* an embedding call of createProduct returns: the vector is attached and
\* the handler goes on
CreateEmbeddingReturns(s, vector) ==
    /\ req[s].route = "create" /\ req[s].pc = "awaitEmbed"
    /\ LET r == req[s]
           product == [r.product EXCEPT ![StageVectorKey[r.stage]] = vector]
       IN  req' = [req EXCEPT ![s] =
                      CreateProceed([r EXCEPT !.product = product,
                                              !.embedSettled = @ + 1],
                                    services.container, r.stage + 1)]
    /\ UNCHANGED <<cosmosVars, callerVars, serverVars, storeVars, arrivals, created>>

\* an embedding call of createProduct throws
CreateEmbeddingFails(s, err) ==
    /\ req[s].route = "create" /\ req[s].pc = "awaitEmbed"
    /\ req' = [req EXCEPT ![s] =
                   CreateEmbeddingFailed([req[s] EXCEPT !.error = err],
                                         services.container)]
    /\ UNCHANGED <<cosmosVars, callerVars, serverVars, storeVars, arrivals, created>>

\* productService.addProduct settles: lines 121-133
CreateStoreSettles(s, fate, err) ==
    /\ req[s].route = "create" /\ req[s].pc = "awaitStore"
    /\ LET result == addProduct(services.container, docs, req[s].product, fate, err)
           r == [req[s] EXCEPT !.wrote = (result.docs # docs),
                               !.failed = IF fate = "fail" THEN "store"
                                          ELSE IF HasId(docs, req[s].product["id"].v)
                                          THEN "conflict" ELSE @,
                               !.error = IF fate = "fail" THEN err
                                         ELSE IF HasId(docs, req[s].product["id"].v)
                                         THEN ConflictError ELSE @]
       IN  /\ docs' = result.docs
           /\ IF result.threw
              THEN /\ req' = [req EXCEPT ![s] = Respond(r, InternalServerError)]
                   /\ UNCHANGED created
              ELSE /\ req' = [req EXCEPT ![s] = Respond(r, JsonData(201, result.value))]
                   /\ created' = Append(created,
                                        [id |-> result.value[1]["id"].v,
                                         body |-> req[s].body])
    /\ UNCHANGED <<cosmosVars, callerVars, serverVars, nextUuid, arrivals>>

(***************************************************************************)
(* getProducts (productController.ts:15-32).                               *)
(***************************************************************************)
\* a handler's store call: issued, or failed on a missing container
IssueStoreCall(r, container) ==
    IF NoContainer(container)
    THEN Respond(r, InternalServerError)
    ELSE [r EXCEPT !.pc = "awaitStore", !.storeCalls = @ + 1]

\* a list handler that discards the initialization of the singleton
GetProductsArrivesReinitializes(s) ==
    /\ CanArrive(s)
    /\ arrivals' = arrivals + 1
    /\ req' = [req EXCEPT ![s] = [NewRequest("list") EXCEPT !.pc = "awaitStore",
                                                           !.storeCalls = @ + 1]]
    /\ initialized' = FALSE
    /\ productsContainer' = "undefined"
    /\ UNCHANGED <<initializing, initRun, dbCreateCalls, containerCreateCalls,
                   callerVars, serverVars, storeVars, created>>

GetProductsArrives(s) ==
    /\ CanArrive(s)
    /\ arrivals' = arrivals + 1
    /\ req' = [req EXCEPT ![s] =
                   IssueStoreCall(NewRequest("list"), services.container)]
    /\ UNCHANGED <<cosmosVars, callerVars, serverVars, storeVars, created>>

GetProductsStoreSettles(s, fate, err) ==
    /\ req[s].route = "list" /\ req[s].pc = "awaitStore"
    /\ LET result == getProducts(services.container, docs, fate, err)
           r == [req[s] EXCEPT !.failed = IF fate = "fail" THEN "store" ELSE @,
                               !.error = IF fate = "fail" THEN err ELSE @]
       IN  req' = [req EXCEPT ![s] =
                      IF result.threw THEN Respond(r, InternalServerError)
                      ELSE Respond(r, JsonData(200, result.value))]
    /\ UNCHANGED <<cosmosVars, callerVars, serverVars, storeVars, arrivals, created>>

(***************************************************************************)
(* getProductById (productController.ts:39-74).                            *)
(***************************************************************************)
GetProductByIdArrives(s, id) ==
    /\ CanArrive(s)
    /\ arrivals' = arrivals + 1
    /\ LET parseIDResult == safeParse(productIDSchema, [k \in {"id"} |-> Str(id)])
           r0 == [NewRequest("getById") EXCEPT !.id = id]
       IN  req' = [req EXCEPT ![s] =
                      IF ~parseIDResult.success
                      THEN Respond(r0, JsonMessage(400,
                               "Invalid product ID, should be a valid UUID"))
                      ELSE IssueStoreCall(r0, services.container)]
    /\ UNCHANGED <<cosmosVars, callerVars, serverVars, storeVars, created>>

\* a catch block that answers with the message of the error it caught
GetByIdResponseLeaks(r, result) ==
    IF result.threw THEN Respond(r, JsonMessage(500, result.error.message))
    ELSE IF result.value = <<>> THEN Respond(r, JsonMessage(404, "Product not found"))
    ELSE Respond(r, JsonData(200, result.value))

\* lines 54-73 after productService.getProductById settled
GetByIdResponse(r, result) ==
    IF result.threw THEN Respond(r, InternalServerError)
    ELSE IF result.value = <<>> THEN Respond(r, JsonMessage(404, "Product not found"))
    ELSE Respond(r, JsonData(200, result.value))

GetProductByIdStoreSettles(s, fate, err) ==
    /\ req[s].route = "getById" /\ req[s].pc = "awaitStore"
    /\ req' = [req EXCEPT ![s] =
                   GetByIdResponse(
                       [req[s] EXCEPT !.failed = IF fate = "fail" THEN "store" ELSE @,
                                      !.error = ItemRead(docs, req[s].id, fate, err).error],
                       getProductById(services.container, docs, req[s].id, fate, err))]
    /\ UNCHANGED <<cosmosVars, callerVars, serverVars, storeVars, arrivals, created>>

(***************************************************************************)
(* The three search handlers (productController.ts:141-237).               *)
(***************************************************************************)
DefaultTop == 10
\* a number with a fractional part: n + 1/2
Frac(n) == [t |-> "number", v |-> n, half |-> 1]
NumberIsInteger(val) == val.t = "number" /\ "half" \notin DOMAIN val
TopTruthy(val) == IF val.t = "number" /\ "half" \in DOMAIN val THEN TRUE ELSE Truthy(val)
\* a top that is taken whenever it is a positive number
TopResultsAnyPositive(top) ==
    IF top.t = "number" /\ top.v > 0 THEN top.v ELSE DefaultTop

\* top && Number.isInteger(top) && top > 0 ? top : 10
TopResults(top) ==
    IF TopTruthy(top) /\ NumberIsInteger(top) /\ top.v > 0 THEN top.v ELSE DefaultTop

\* a generateTextVector that keeps the vectors of the texts it has embedded
\* for the requests at hand and answers from them
IssueEmbeddingCached(r, input) ==
    IF \E t \in Slots : \E i \in 1..Len(req[t].embedInputs) :
           req[t].embedInputs[i] = input
    THEN [r EXCEPT !.pc = "awaitStore", !.vector = EmbeddingOf(input),
                   !.topResults = DefaultTop, !.storeCalls = @ + 1]
    ELSE [r EXCEPT !.pc = "awaitEmbed", !.embedCalls = @ + 1,
                   !.embedInputs = Append(@, input)]

\* the handler is suspended in generateTextVector, called outside any try
IssueEmbedding(r, input) ==
    [r EXCEPT !.pc = "awaitEmbed", !.embedCalls = @ + 1,
              !.embedInputs = Append(@, input)]

\* lines 216-220: no validation of queryDescription
SearchDescriptionArrives(s, queryDescription, top) ==
    /\ CanArrive(s)
    /\ arrivals' = arrivals + 1
    /\ req' = [req EXCEPT ![s] =
                   IssueEmbedding([NewRequest("searchDescription") EXCEPT
                                       !.query = queryDescription, !.top = top],
                                  queryDescription)]
    /\ UNCHANGED <<cosmosVars, callerVars, serverVars, storeVars, created>>

\* lines 141-154 and 178-191: the array of strings is validated and joined
SearchArrayArrives(s, route, schema, message, query, top) ==
    /\ CanArrive(s)
    /\ arrivals' = arrivals + 1
    /\ LET parsed == safeParse(schema, [k \in {"tags"} |-> query])
           r0 == [NewRequest(route) EXCEPT !.query = query, !.top = top]
       IN  req' = [req EXCEPT ![s] =
                      IF ~parsed.success
                      THEN Respond(r0, JsonMessage(400, message))
                      ELSE IssueEmbedding(r0, Str(JoinSpace(parsed.data["tags"].v)))]
    /\ UNCHANGED <<cosmosVars, callerVars, serverVars, storeVars, created>>

SearchTagsArrives(s, queryTags, top) ==
    SearchArrayArrives(s, "searchTags", tagsSchema,
        "Invalid tags. It should be an array of strings ie \"queryVector\" : [\"item\",\"item2\"].",
        queryTags, top)

SearchFeaturesArrives(s, queryFeatures, top) ==
    SearchArrayArrives(s, "searchFeatures", featuresSchema,
        "Invalid features. It should be an array of strings ie \"queryVector\" : [\"item\",\"item2\"].",
        queryFeatures, top)

SearchRoutes == {"searchDescription", "searchTags", "searchFeatures"}

\* the embedding call of a search handler returns: top is settled and the
\* store query is issued inside the try block
SearchEmbeddingReturns(s, vector) ==
    /\ req[s].route \in SearchRoutes /\ req[s].pc = "awaitEmbed"
    /\ req' = [req EXCEPT ![s] =
                   IssueStoreCall([req[s] EXCEPT !.vector = vector,
                                                 !.embedSettled = @ + 1,
                                                 !.topResults = TopResults(req[s].top)],
                                  services.container)]
    /\ UNCHANGED <<cosmosVars, callerVars, serverVars, storeVars, arrivals, created>>

\* the embedding call of a search handler throws: the await is outside the
\* try block, the promise of the handler rejects, and the route callback
\* (productsRoutes.ts:33-45) neither awaits it nor passes it to next():
\* no response is sent
SearchEmbeddingFails(s, err) ==
    /\ req[s].route \in SearchRoutes /\ req[s].pc = "awaitEmbed"
    /\ req' = [req EXCEPT ![s].pc = "unhandledRejection", ![s].failed = "embedding",
                          ![s].embedSettled = @ + 1, ![s].error = err]
    /\ UNCHANGED <<cosmosVars, callerVars, serverVars, storeVars, arrivals, created>>

SearchResult(r, container, d, fate, err) ==
    CASE r.route = "searchDescription" ->
             searchProductsByDescriptionVector(container, d, r.vector, r.topResults, fate, err)
      [] r.route = "searchTags" ->
             searchProductsByTagsVector(container, d, r.vector, r.topResults, fate, err)
      [] r.route = "searchFeatures" ->
             searchProductsByFeaturesVector(container, d, r.vector, r.topResults, fate, err)

SearchStoreSettles(s, fate, err) ==
    /\ req[s].route \in SearchRoutes /\ req[s].pc = "awaitStore"
    /\ LET result == SearchResult(req[s], services.container, docs, fate, err)
           r == [req[s] EXCEPT !.failed = IF result.threw THEN "store" ELSE @,
                               !.error = IF fate = "fail" THEN err ELSE @]
       IN  req' = [req EXCEPT ![s] =
                      IF result.threw THEN Respond(r, InternalServerError)
                      ELSE Respond(r, JsonData(200, result.value))]
    /\ UNCHANGED <<cosmosVars, callerVars, serverVars, storeVars, arrivals, created>>

(***************************************************************************)
(* The middlewares around the routes (app.ts): express.json() hands a body *)
(* that is not JSON to next(err), and the errorHandler, the last           *)
(* middleware, answers it.                                                 *)
(***************************************************************************)
\* middlewares/errorHandler.ts: the error is logged, the answer is fixed
errorHandler(r) == Respond(r, InternalServerError)

PostRoutes == {"create"} \cup SearchRoutes

\* a POST whose body express.json() cannot parse: no route handler runs
BodyParseFails(s, route) ==
    /\ CanArrive(s)
    /\ arrivals' = arrivals + 1
    /\ req' = [req EXCEPT ![s] =
                   errorHandler([NewRequest(route) EXCEPT !.failed = "parse"])]
    /\ UNCHANGED <<cosmosVars, callerVars, serverVars, storeVars, created>>

(***************************************************************************)
(* startServer (server.ts:12-35).                                          *)
(***************************************************************************)
NoServices == [present |-> FALSE, container |-> "undefined"]

\* lines 15-16: getInstance() and the call of initialize()
StartServer ==
    /\ server.pc = "start"
    /\ \E awaited \in 0..(Len(initRun) + 1) :
          /\ initialize(awaited)
          /\ server' = [server EXCEPT !.pc = "awaitInit", !.awaits = awaited]
    /\ UNCHANGED <<callerVars, services, storeVars, reqVars>>

\* a startServer that goes on to listen whatever initialize() came to
ServerResumesAnyway ==
    /\ server.pc = "awaitInit"
    /\ Settled(server.awaits)
    /\ services' = [present |-> TRUE, container |-> productsContainer]
    /\ server' = [server EXCEPT !.pc = "listening"]
    /\ UNCHANGED <<cosmosVars, callerVars, storeVars, reqVars>>

\* lines 19-28 when initialize() fulfilled, lines 29-32 when anything threw
ServerResumes ==
    /\ server.pc = "awaitInit"
    /\ Settled(server.awaits)
    /\ LET svc == initializeServices
       IN  IF Outcome(server.awaits) = "fulfilled" /\ ~svc.threw
           THEN /\ services' = [present |-> TRUE, container |-> svc.container]
                /\ server' = [server EXCEPT !.pc = "listening"]
           ELSE /\ server' = [server EXCEPT !.pc = "exited", !.exitCode = 1]
                /\ UNCHANGED services
    /\ UNCHANGED <<cosmosVars, callerVars, storeVars, reqVars>>

(***************************************************************************)
(* Inputs of the model.                                                    *)
(***************************************************************************)
Dimensions(weight) ==
    Obj([k \in {"weight", "width", "height", "depth"} |->
            IF k = "weight" THEN weight ELSE Str("10cm")])

\* the sample product of app.http:9-36, with shorter texts
BaseBody ==
    [k \in BodyKeys |->
        CASE k = "name" -> Str("Wireless Charging Pad")
          [] k = "brand" -> Str("ChargeWave")
          [] k = "sku" -> Str("SKU-1010")
          [] k = "category" -> Str("Mobile Accessories")
          [] k = "price" -> Num(29)
          [] k = "currency" -> Str("USD")
          [] k = "stock" -> Num(450)
          [] k = "description" -> Str("Wireless charging pad")
          [] k = "features" -> Str("Qi-Compatible, Fast Charging")
          [] k = "rating" -> Num(4)
          [] k = "reviewsCount" -> Num(1340)
          [] k = "tags" -> Arr(<<Str("charging"), Str("wireless")>>)
          [] k = "imageUrl" -> Str("https://example.com/images/products/SKU-1010.jpg")
          [] k = "manufacturer" -> Str("ChargeWave Ltd.")
          [] k = "model" -> Str("CW-WCP300")
          [] k = "releaseDate" -> Str("2023-07-05")
          [] k = "warranty" -> Str("1 year")
          [] k = "dimensions" -> Dimensions(Str("200g"))
          [] k = "color" -> Str("White")
          [] k = "material" -> Str("Plastic")
          [] k = "origin" -> Str("South Korea")
          [] OTHER -> Undefined]

ClientVector == Arr(<<Num(3), Num(4)>>)

\* the create bodies of the general specification
Bodies ==
    { BaseBody,
      [BaseBody EXCEPT !["id"] = Str("uuid-A")],
      [BaseBody EXCEPT !["extra"] = Str("not in the schema")],
      [BaseBody EXCEPT !["description"] = Str("Smart LED light bulbs"),
                       !["tags"] = Arr(<<>>),
                       !["features"] = Str(""),
                       !["featuresVector"] = ClientVector,
                       !["imageVector"] = ClientVector],
      [BaseBody EXCEPT !["name"] = Undefined],
      [BaseBody EXCEPT !["price"] = Str("29.99"),
                       !["imageUrl"] = Str("not a url"),
                       !["dimensions"] = Dimensions(Num(200))],
      [BaseBody EXCEPT !["id"] = Str("not-a-uuid")] }

\* the ids of GET /products/:id
RequestIds == {"uuid-A", GeneratedUUID(1), "not-a-uuid"}

\* the queryDescription values: a string, and none
DescriptionQueries ==
    {Str("smart lighting"), Undefined}
\* the queryTags / queryFeatures values
ArrayQueries ==
    {Arr(<<Str("charging"), Str("wireless")>>), Arr(<<>>), Arr(<<Str("charging"), Num(1)>>)}
\* the top values
TopValues == {Num(1), Str("5")}

\* values a field of the given kind rejects
BadValues(field) ==
    (IF field.optional THEN {} ELSE {Undefined}) \cup
    CASE field.kind = "string" -> {Num(7), Null}
      [] field.kind = "number" -> {Str("29.99")}
      [] field.kind = "uuid" -> {Str("not-a-uuid"), Num(7)}
      [] field.kind = "url" -> {Str("not a url")}
      [] field.kind = "stringArray" ->
             {Str("charging"), Arr(<<Str("charging"), Num(1)>>), Arr(<<Num(1), Num(2)>>)}
      [] field.kind = "numberArray" -> {Str("3,4"), Arr(<<Num(3), Str("4")>>)}
      [] field.kind = "dimensions" ->
             {Str("200g"), Dimensions(Num(200)), Dimensions(Undefined)}

\* the sample product with one field, or two fields, replaced by a value the
\* schema rejects; and the empty body
OneBad(body, i) ==
    {[body EXCEPT ![productSchema[i].key] = v] : v \in BadValues(productSchema[i])}
SingleBadBodies ==
    UNION {OneBad(BaseBody, i) : i \in 1..Len(productSchema)}
\* one field of each kind of the schema
KindFields ==
    {i \in 1..Len(productSchema) :
        productSchema[i].key \in {"id", "name", "price", "tags", "imageUrl",
                                  "dimensions", "descriptionVector"}}
PairBadBodies ==
    UNION {UNION {OneBad(b, j) : b \in OneBad(BaseBody, i)} :
              i \in KindFields, j \in KindFields}
\* the vectors a client may put in its payload, one per vector field
ClientVectorFor(k) ==
    CASE k = "descriptionVector" -> Arr(<<Num(3), Num(4)>>)
      [] k = "imageVector" -> Arr(<<Num(3), Num(5)>>)
      [] k = "tagsVector" -> Arr(<<Num(3), Num(6)>>)
      [] k = "featuresVector" -> Arr(<<Num(3), Num(7)>>)
      [] k = "dimensionsVector" -> Arr(<<Num(3), Num(8)>>)
\* valid payloads whose three text fields are each empty or not, with and
\* without vectors of the client's own
VectorBodies ==
    { [k \in BodyKeys |->
          CASE k = "description" -> d
            [] k = "tags" -> t
            [] k = "features" -> f
            [] k \in VectorKeys -> IF own THEN ClientVectorFor(k) ELSE Undefined
            [] OTHER -> BaseBody[k]] :
        d \in {Str(""), Str("Smart LED light bulbs")},
        t \in {Arr(<<>>), Arr(<<Str("charging"), Str("wireless")>>)},
        f \in {Str(""), Str("Voice Remote")},
        own \in BOOLEAN }
CreateBodies ==
    Bodies \cup SingleBadBodies \cup PairBadBodies \cup {EmptyBody}

\* the document a successful createProduct leaves in the collection for a
\* valid body: the parsed data, the id, and the three embeddings
StoredProduct(body, uuid) ==
    LET product == AssignId(ParsedData(productSchema, body), uuid)
        vector(st) == IF StageApplies(product, st)
                      THEN EmbeddingOf(Str(StageText(product, st)))
                      ELSE product[StageVectorKey[st]]
    IN  [k \in DOMAIN product |->
            IF \E st \in 1..3 : StageVectorKey[st] = k
            THEN vector(CHOOSE st \in 1..3 : StageVectorKey[st] = k)
            ELSE product[k]]

\* the collection outlives the server process: products stored by earlier
\* runs of the server
SeedDocs ==
    << StoredProduct([BaseBody EXCEPT !["id"] = Str("uuid-A")], GeneratedUUID(9)),
       StoredProduct([BaseBody EXCEPT !["description"] = Str("Smart LED light bulbs"),
                                      !["tags"] = Arr(<<>>),
                                      !["features"] = Str(""),
                                      !["featuresVector"] = ClientVector,
                                      !["imageVector"] = ClientVector],
                     GeneratedUUID(9)),
       StoredProduct([BaseBody EXCEPT !["id"] = Str("uuid-B"),
                                      !["description"] = Str("USB cable"),
                                      !["tags"] = Arr(<<Str("usb")>>),
                                      !["features"] = Str("Voice Remote")],
                     GeneratedUUID(9)) >>
SeedCollections == {SubSeq(SeedDocs, 1, n) : n \in 0..Len(SeedDocs)}

\* create bodies that compete for ids: without an id, and two different
\* products under the same client id
IdBodies ==
    { BaseBody,
      [BaseBody EXCEPT !["id"] = Str("uuid-A")],
      [BaseBody EXCEPT !["id"] = Str("uuid-A"),
                       !["name"] = Str("Smart Bulb"),
                       !["description"] = Str("Smart LED light bulbs")],
      [BaseBody EXCEPT !["id"] = Str("uuid-B"), !["features"] = Str("")] }

\* the top values of the search specification: omitted, null, zero, negative,
\* positive integers below and above the size of the collection, a number
\* with a fraction, numeric and empty strings
WideTopValues ==
    {Undefined, Null, Num(0), Num(-1), Num(1), Num(2), Num(3), Num(12), Frac(2),
     Str("5"), Str("")}

(***************************************************************************)
(* Callers of the singleton other than the server: code that uses          *)
(* CosmosDB.getInstance().initialize() and the services directly, as a     *)
(* test of the store client does.                                          *)
(***************************************************************************)
IdleCaller == [pc |-> "idle", awaits |-> 0, outcome |-> "none"]
NoProbe == [op |-> "none", threw |-> FALSE, error |-> "", issued |-> FALSE,
            early |-> FALSE]
StoreOps == {"create", "getById", "listAll", "searchByVector"}

CallerInitializes(c) ==
    /\ caller[c].pc = "idle"
    /\ initCalls < MaxInitCalls
    /\ initCalls' = initCalls + 1
    /\ \E awaited \in 0..(Len(initRun) + 1) :
          /\ initialize(awaited)
          /\ caller' = [caller EXCEPT ![c] =
                            IF awaited = 0
                            THEN [pc |-> "idle", awaits |-> 0, outcome |-> "fulfilled"]
                            ELSE [pc |-> "awaiting", awaits |-> awaited,
                                  outcome |-> "none"]]
    /\ UNCHANGED <<probe, serverVars, storeVars, reqVars>>

\* the promise a caller awaits has settled: the caller goes on
CallerResumes(c) ==
    /\ caller[c].pc = "awaiting"
    /\ Settled(caller[c].awaits)
    /\ caller' = [caller EXCEPT ![c] = [pc |-> "idle", awaits |-> @.awaits,
                                        outcome |-> Outcome(@.awaits)]]
    /\ UNCHANGED <<cosmosVars, initCalls, probe, serverVars, storeVars, reqVars>>

\* the product a direct create stores
DirectProduct == AssignId(ParsedData(productSchema, BaseBody), "uuid-B")

\* productService.<op>(...) on a ProductService the caller constructs
DirectResult(op, container, fate, err) ==
    CASE op = "create" -> addProduct(container, docs, DirectProduct, fate, err)
      [] op = "getById" -> getProductById(container, docs, "uuid-B", fate, err)
      [] op = "listAll" -> getProducts(container, docs, fate, err)
      [] op = "searchByVector" ->
             searchProductsByDescriptionVector(container, docs,
                 EmbeddingOf(Str("smart lighting")), DefaultTop, fate, err)

\* new ProductService() and one of its four operations, in one turn
DirectStoreOp(op, fate, err) ==
    /\ LET svc == initializeServices
       IN  IF svc.threw
           THEN /\ probe' = [op |-> op, threw |-> TRUE, error |-> svc.error,
                             issued |-> FALSE, early |-> ~initialized]
                /\ UNCHANGED docs
           ELSE LET result == DirectResult(op, svc.container, fate, err)
                IN  /\ probe' = [op |-> op, threw |-> result.threw,
                                 error |-> result.error.message,
                                 issued |-> result.issued, early |-> ~initialized]
                    /\ docs' = result.docs
    /\ UNCHANGED <<cosmosVars, caller, initCalls, serverVars, nextUuid, reqVars>>

(***************************************************************************)
(* The specifications.                                                     *)
(***************************************************************************)
Init ==
    /\ initialized = FALSE
    /\ initializing = 0
    /\ productsContainer = "undefined"
    /\ initRun = <<>>
    /\ dbCreateCalls = 0
    /\ containerCreateCalls = 0
    /\ caller = [c \in Callers |-> IdleCaller]
    /\ initCalls = 0
    /\ probe = NoProbe
    /\ server = [pc |-> "start", awaits |-> 0, exitCode |-> 0]
    /\ services = NoServices
    /\ docs = <<>>
    /\ nextUuid = 0
    /\ req = [s \in Slots |-> IdleSlot]
    /\ arrivals = 0
    /\ created = <<>>

\* the server process: startup, then requests
Next ==
    \/ StartServer
    \/ InitProgress /\ UNCHANGED <<callerVars, serverVars, storeVars, reqVars>>
    \/ ServerResumes
    \/ \E s \in Slots, body \in Bodies : CreateProductArrives(s, body)
    \/ \E s \in Slots : \E vector \in EmbeddingResults(LastInput(req[s])) :
            CreateEmbeddingReturns(s, vector)
    \/ \E s \in Slots, err \in UpstreamErrors : CreateEmbeddingFails(s, err)
    \/ \E s \in Slots, o \in StoreOutcomes :
            CreateStoreSettles(s, o.fate, o.err)
    \/ \E s \in Slots : GetProductsArrives(s)
    \/ \E s \in Slots, o \in StoreOutcomes :
            GetProductsStoreSettles(s, o.fate, o.err)
    \/ \E s \in Slots, id \in RequestIds : GetProductByIdArrives(s, id)
    \/ \E s \in Slots, o \in ReadOutcomes :
            GetProductByIdStoreSettles(s, o.fate, o.err)
    \/ \E s \in Slots, q \in DescriptionQueries, top \in TopValues :
            SearchDescriptionArrives(s, q, top)
    \/ \E s \in Slots, q \in ArrayQueries, top \in TopValues :
            SearchTagsArrives(s, q, top)
    \/ \E s \in Slots, q \in ArrayQueries, top \in TopValues :
            SearchFeaturesArrives(s, q, top)
    \/ \E s \in Slots : \E vector \in EmbeddingResults(LastInput(req[s])) :
            SearchEmbeddingReturns(s, vector)
    \/ \E s \in Slots, err \in UpstreamErrors : SearchEmbeddingFails(s, err)
    \/ \E s \in Slots, o \in StoreOutcomes :
            SearchStoreSettles(s, o.fate, o.err)
    \/ \E s \in Slots, route \in PostRoutes : BodyParseFails(s, route)

Spec == Init /\ [][Next]_vars

\* the store client used as a library by several callers
NextInit ==
    \/ \E c \in Callers : CallerInitializes(c)
    \/ InitProgress /\ UNCHANGED <<callerVars, serverVars, storeVars, reqVars>>
    \/ \E c \in Callers : CallerResumes(c)
    \/ \E op \in StoreOps, o \in StoreOutcomes : DirectStoreOp(op, o.fate, o.err)

SpecInit == Init /\ [][NextInit]_vars

\* the server with POST /products only, one request at a time, over the
\* wide set of bodies
NextCreate ==
    \/ StartServer
    \/ InitProgress /\ UNCHANGED <<callerVars, serverVars, storeVars, reqVars>>
    \/ ServerResumes
    \/ \E body \in CreateBodies : CreateProductArrives(1, body)
    \/ \E vector \in EmbeddingResults(LastInput(req[1])) :
            CreateEmbeddingReturns(1, vector)
    \/ \E err \in UpstreamErrors : CreateEmbeddingFails(1, err)
    \/ \E o \in StoreOutcomes : CreateStoreSettles(1, o.fate, o.err)

SpecCreate == Init /\ [][NextCreate]_vars

\* the server over a collection that earlier runs have filled: the three
\* searches and the list, one request at a time, over the wide set of tops
InitSearch ==
    /\ initialized = FALSE
    /\ initializing = 0
    /\ productsContainer = "undefined"
    /\ initRun = <<>>
    /\ dbCreateCalls = 0
    /\ containerCreateCalls = 0
    /\ caller = [c \in Callers |-> IdleCaller]
    /\ initCalls = 0
    /\ probe = NoProbe
    /\ server = [pc |-> "start", awaits |-> 0, exitCode |-> 0]
    /\ services = NoServices
    /\ docs \in SeedCollections
    /\ nextUuid = 0
    /\ req = [s \in Slots |-> IdleSlot]
    /\ arrivals = 0
    /\ created = <<>>

NextSearch ==
    \/ StartServer
    \/ InitProgress /\ UNCHANGED <<callerVars, serverVars, storeVars, reqVars>>
    \/ ServerResumes
    \/ GetProductsArrives(1)
    \/ \E o \in StoreOutcomes : GetProductsStoreSettles(1, o.fate, o.err)
    \/ \E q \in DescriptionQueries, top \in WideTopValues :
            SearchDescriptionArrives(1, q, top)
    \/ \E q \in ArrayQueries, top \in WideTopValues : SearchTagsArrives(1, q, top)
    \/ \E q \in ArrayQueries, top \in WideTopValues : SearchFeaturesArrives(1, q, top)
    \/ \E vector \in EmbeddingResults(LastInput(req[1])) :
            SearchEmbeddingReturns(1, vector)
    \/ \E err \in UpstreamErrors : SearchEmbeddingFails(1, err)
    \/ \E o \in StoreOutcomes : SearchStoreSettles(1, o.fate, o.err)

SpecSearch == InitSearch /\ [][NextSearch]_vars

\* the startup of the server with the two GET routes; startServer resumes
\* once the promise it awaits has settled
NextStartup ==
    \/ StartServer
    \/ InitProgress /\ UNCHANGED <<callerVars, serverVars, storeVars, reqVars>>
    \/ ServerResumes
    \/ \E s \in Slots : GetProductsArrives(s)
    \/ \E s \in Slots, o \in StoreOutcomes :
            GetProductsStoreSettles(s, o.fate, o.err)
    \/ \E s \in Slots, id \in RequestIds : GetProductByIdArrives(s, id)
    \/ \E s \in Slots, o \in ReadOutcomes :
            GetProductByIdStoreSettles(s, o.fate, o.err)

SpecStartup == Init /\ [][NextStartup]_vars /\ WF_vars(ServerResumes)

\* the server with POST /products only, on every slot, over the bodies that
\* compete for ids
NextIds ==
    \/ StartServer
    \/ InitProgress /\ UNCHANGED <<callerVars, serverVars, storeVars, reqVars>>
    \/ ServerResumes
    \/ \E s \in Slots, body \in IdBodies : CreateProductArrives(s, body)
    \/ \E s \in Slots : \E vector \in EmbeddingResults(LastInput(req[s])) :
            CreateEmbeddingReturns(s, vector)
    \/ \E s \in Slots, err \in UpstreamErrors : CreateEmbeddingFails(s, err)
    \/ \E s \in Slots, o \in StoreOutcomes : CreateStoreSettles(s, o.fate, o.err)

SpecIds == Init /\ [][NextIds]_vars

\* the server with POST /products only, one request at a time, over the
\* payloads that vary the texts to embed and the client's own vectors
NextVectors ==
    \/ StartServer
    \/ InitProgress /\ UNCHANGED <<callerVars, serverVars, storeVars, reqVars>>
    \/ ServerResumes
    \/ \E body \in VectorBodies : CreateProductArrives(1, body)
    \/ \E vector \in EmbeddingResults(LastInput(req[1])) :
            CreateEmbeddingReturns(1, vector)
    \/ \E err \in UpstreamErrors : CreateEmbeddingFails(1, err)
    \/ \E o \in StoreOutcomes : CreateStoreSettles(1, o.fate, o.err)

SpecVectors == Init /\ [][NextVectors]_vars

\* the remote call the handler of slot s is suspended in returns or fails
CallSettles(s) ==
    \/ \E vector \in EmbeddingResults(LastInput(req[s])) :
            CreateEmbeddingReturns(s, vector)
    \/ \E err \in UpstreamErrors : CreateEmbeddingFails(s, err)
    \/ \E o \in StoreOutcomes : CreateStoreSettles(s, o.fate, o.err)
    \/ \E o \in StoreOutcomes : GetProductsStoreSettles(s, o.fate, o.err)
    \/ \E o \in ReadOutcomes : GetProductByIdStoreSettles(s, o.fate, o.err)
    \/ \E vector \in EmbeddingResults(LastInput(req[s])) :
            SearchEmbeddingReturns(s, vector)
    \/ \E err \in UpstreamErrors : SearchEmbeddingFails(s, err)
    \/ \E o \in StoreOutcomes : SearchStoreSettles(s, o.fate, o.err)

\* the server and all its handlers, every remote call of a request
\* eventually returning or failing
SpecSettling == Init /\ [][Next]_vars /\ \A s \in Slots : WF_vars(CallSettles(s))

(***************************************************************************)
(* Claims about the store singleton (checked under SpecInit).              *)
(***************************************************************************)
InitIdle == \A k \in 1..Len(initRun) : Settled(k)
DatabaseCreated(k) == initRun[k] \in {"awaitContainer", "fulfilled", "containerFailed"}

\* C1 as stated: at most one database-creation call and one
\* container-creation call are ever issued, exactly one of each once an
\* initialize() call was made and the initialization has run to its end, and
\* every caller that waits waits for the one run of init().
C1_ExactlyOneOfEach ==
    /\ dbCreateCalls <= 1
    /\ containerCreateCalls <= 1
    /\ (initCalls >= 1 /\ InitIdle) => (dbCreateCalls = 1 /\ containerCreateCalls = 1)
    /\ \A c \in Callers : caller[c].pc = "awaiting" => caller[c].awaits = 1

\* C1 amended: at most one call of each kind is ever issued; exactly one
\* database-creation call once initialize() was called; a container-creation
\* call exactly when the database-creation call has returned successfully;
\* every caller that arrives while the initialization is in flight awaits
\* that same run, and callers that have resumed got its outcome.
C1_InitializationOnce ==
    /\ dbCreateCalls <= 1
    /\ containerCreateCalls <= 1
    /\ Len(initRun) <= 1
    /\ initCalls >= 1 => (dbCreateCalls = 1 /\ Len(initRun) = 1)
    /\ Len(initRun) = 1 =>
          containerCreateCalls = (IF DatabaseCreated(1) THEN 1 ELSE 0)
    /\ \A c \in Callers :
          /\ caller[c].pc = "awaiting" => caller[c].awaits = 1 /\ initializing = 1
          /\ (caller[c].pc = "idle" /\ caller[c].outcome # "none") =>
                 (Settled(1) /\ caller[c].outcome = Outcome(1))

\* two callers wait for the run in flight, after its container-creation call
C1_Witness ==
    /\ \E c1, c2 \in Callers :
          c1 # c2 /\ caller[c1].pc = "awaiting" /\ caller[c2].pc = "awaiting"
    /\ \E c \in Callers : caller[c].outcome = "none" /\ caller[c].pc = "awaiting"
    /\ initCalls >= 2
    /\ containerCreateCalls = 1
    /\ initRun = <<"awaitContainer">>

\* C2: a store operation invoked while the store is not initialized fails
\* with the explicit not-initialized error and issues no call to the store.
C2_NotInitializedFailsFast ==
    (probe.op \in StoreOps /\ probe.early) =>
        /\ probe.threw
        /\ probe.error = NotInitializedError
        /\ ~probe.issued

\* a search was tried while init() was in flight
C2_Witness ==
    /\ probe.op = "searchByVector"
    /\ probe.early
    /\ initRun = <<"awaitContainer">>
    /\ ~initialized

(***************************************************************************)
(* Claims about the request handlers (checked under Spec).                 *)
(***************************************************************************)
\* what the schema asks of a value, stated on the value itself
IsStringArray(val) ==
    val.t = "array" /\ \A i \in 1..Len(val.v) : val.v[i].t = "string"
ConformsToKind(kind, val) ==
    CASE kind = "string" -> val.t = "string"
      [] kind = "uuid" -> val.t = "string" /\ IsUUID(val.v)
      [] kind = "url" -> val.t = "string" /\ IsURL(val.v)
      [] kind = "number" -> val.t = "number"
      [] kind = "stringArray" -> IsStringArray(val)
      [] kind = "numberArray" -> IsNumberArray(val)
      [] kind = "dimensions" ->
             val.t = "object" /\ \A i \in 1..Len(DimensionKeys) :
                                    val.v[DimensionKeys[i]].t = "string"
Violates(field, val) ==
    IF val.t = "undefined" THEN ~field.optional ELSE ~ConformsToKind(field.kind, val)
ViolatedFields(body) ==
    {i \in 1..Len(productSchema) : Violates(productSchema[i], body[productSchema[i].key])}

\* the input of a request is malformed
Malformed(r) ==
    CASE r.route = "create" -> ViolatedFields(r.body) # {}
      [] r.route = "getById" -> ~IsUUID(r.id)
      [] r.route = "searchDescription" -> r.query.t # "string"
      [] r.route \in {"searchTags", "searchFeatures"} -> ~IsStringArray(r.query)
      [] OTHER -> FALSE

Requests == {s \in Slots : req[s].route # "none"}

\* C3: on every route a request with malformed input is answered 400 and
\* issues no embedding call and no store call.
C3_MalformedIs400 ==
    \A s \in Requests :
        Malformed(req[s]) =>
            /\ req[s].response.code = 400
            /\ req[s].embedCalls = 0
            /\ req[s].storeCalls = 0

\* C4: a request whose embedding call or store call failed is answered 500
\* with the message 'Internal Server Error'.
C4_UpstreamFailureIs500 ==
    \A s \in Requests :
        req[s].failed # "none" => req[s].response = InternalServerError

\* C5: a create whose embedding call failed issues no store call, leaves the
\* collection as it was and is answered 500.
C5_FailedEmbeddingNoWrite ==
    \A s \in Requests :
        (req[s].route = "create" /\ req[s].failed = "embedding") =>
            /\ req[s].storeCalls = 0
            /\ ~req[s].wrote
            /\ req[s].pc = "responded"
            /\ req[s].response = InternalServerError

\* the second embedding call of a create failed while a document was stored
C5_Witness ==
    \E s \in Requests :
        /\ req[s].route = "create"
        /\ req[s].failed = "embedding"
        /\ req[s].stage = 2
        /\ req[s].embedCalls = 2
        /\ Len(docs) = 1

\* the paths under which the value of a field breaks the schema
ViolationPaths(field, val) ==
    IF val.t = "undefined" THEN (IF field.optional THEN {} ELSE {field.key})
    ELSE IF field.kind \in {"stringArray", "numberArray"} /\ val.t = "array"
    THEN {field.key \o "." \o ToString(i - 1) :
             i \in {j \in 1..Len(val.v) :
                       val.v[j].t # (IF field.kind = "stringArray" THEN "string"
                                     ELSE "number")}}
    ELSE IF field.kind = "dimensions" /\ val.t = "object"
    THEN {field.key \o "." \o DimensionKeys[i] :
             i \in {j \in 1..Len(DimensionKeys) : val.v[DimensionKeys[j]].t # "string"}}
    ELSE IF ConformsToKind(field.kind, val) THEN {} ELSE {field.key}

ErrorsList(r) == {r.response.errors[i] : i \in 1..Len(r.response.errors)}

\* C6: a create whose payload has missing or schema-violating fields is
\* answered 400 with status 'error' and an errors list that has an entry
\* (dotted path and message) for every violated field, and for nothing else;
\* no embedding call and no store call is issued and nothing is stored.
C6_EveryViolatedFieldReported ==
    \A s \in Requests :
        (req[s].route = "create" /\ ViolatedFields(req[s].body) # {}) =>
            /\ req[s].pc = "responded"
            /\ req[s].response.code = 400
            /\ req[s].response.status = "error"
            /\ \A i \in ViolatedFields(req[s].body) :
                   /\ ViolationPaths(productSchema[i], req[s].body[productSchema[i].key]) # {}
                   /\ \A p \in ViolationPaths(productSchema[i],
                                              req[s].body[productSchema[i].key]) :
                          \E e \in ErrorsList(req[s]) : e.path = p /\ e.message # ""
            /\ \A e \in ErrorsList(req[s]) :
                   \E i \in ViolatedFields(req[s].body) :
                       e.path \in ViolationPaths(productSchema[i],
                                                 req[s].body[productSchema[i].key])
            /\ req[s].embedCalls = 0
            /\ req[s].storeCalls = 0
            /\ ~req[s].wrote

\* a payload with two violated fields, one of them nested, is refused while
\* the collection holds a document
C6_Witness ==
    /\ req[1].route = "create"
    /\ req[1].body["name"] = Undefined
    /\ req[1].body["dimensions"] = Dimensions(Num(200))
    /\ req[1].response.code = 400
    /\ Len(req[1].response.errors) = 2
    /\ Len(docs) = 1

\* the create requests whose payload the schema accepts
ValidCreates == {s \in Requests : req[s].route = "create" /\ ViolatedFields(req[s].body) = {}}
\* the record a field is read from, a key it does not have being undefined
Field(rec, k) == IF k \in DOMAIN rec THEN rec[k] ELSE Undefined
Returned(r) == r.response.data[1]

\* C7: for a valid create payload, the record handed to the store and
\* returned in the 201 response carries a well-formed UUID: one that
\* uuidv4() generated for this request when the payload has no id, the
\* payload's own id when it has one.
C7_IdentifierAssigned ==
    \A s \in ValidCreates :
        /\ req[s].product["id"].t = "string" /\ IsUUID(req[s].product["id"].v)
        /\ IF req[s].body["id"] = Undefined
           THEN /\ \E n \in 1..nextUuid : req[s].product["id"].v = GeneratedUUID(n)
                /\ \A t \in ValidCreates \ {s} :
                       req[t].product["id"] # req[s].product["id"]
           ELSE req[s].product["id"] = req[s].body["id"]
        /\ req[s].response.code = 201 =>
               /\ Returned(req[s])["id"] = req[s].product["id"]
               /\ HasId(docs, req[s].product["id"].v)

\* one create with its own id and one without are both answered 201
C7_Witness ==
    \E s, t \in ValidCreates :
        /\ req[s].body["id"] = Str("uuid-A")
        /\ req[s].response.code = 201
        /\ Returned(req[s])["id"] = Str("uuid-A")
        /\ req[t].body["id"] = Undefined
        /\ req[t].response.code = 201
        /\ Returned(req[t])["id"] = Str(GeneratedUUID(1))

CreatedBefore(r) == {i \in 1..r.createdBefore : created[i].id = r.id}
\* the getById requests for the id of a create answered before they arrived
RoundTrips == {s \in Requests : req[s].route = "getById" /\ CreatedBefore(req[s]) # {}}

C10_AbsentIs404FailureIs500 ==
    /\ \A s \in Requests :
          (req[s].route = "getById" /\ IsUUID(req[s].id) /\ req[s].pc = "responded") =>
              /\ req[s].failed = "store" => req[s].response = InternalServerError
              /\ (req[s].failed = "none" /\ ~HasId(docs, req[s].id)) =>
                     req[s].response = JsonMessage(404, "Product not found")
    /\ \A id \in {i \in RequestIds : IsUUID(i) /\ ~HasId(docs, i)}, o \in ReadOutcomes :
          LET result == getProductById(services.container, docs, id, o.fate, o.err)
          IN  services.container = "productsContainer" =>
                  IF o.fate = "fail"
                  THEN result.threw /\ result.error = o.err
                  ELSE ~result.threw /\ result.value = <<>>

\* with a product stored, one getById for another id was answered 404 and
\* one whose read failed was answered 500
C10_Witness ==
    \E s, t \in Requests :
        /\ req[s].route = "getById" /\ req[t].route = "getById"
        /\ req[s].response.code = 404 /\ ~HasId(docs, req[s].id)
        /\ req[t].response.code = 500 /\ req[t].failed = "store"
        /\ Len(docs) = 1

\* C11: a getById whose id is not a UUID is answered 400, with the message
\* of the handler, and issues no store call.
C11_MalformedIdIs400 ==
    \A s \in Requests :
        (req[s].route = "getById" /\ ~IsUUID(req[s].id)) =>
            /\ req[s].pc = "responded"
            /\ req[s].response =
                   JsonMessage(400, "Invalid product ID, should be a valid UUID")
            /\ req[s].storeCalls = 0
            /\ req[s].embedCalls = 0

\* with a product stored, a getById for 'not-a-uuid' was refused
C11_Witness ==
    \E s \in Requests :
        /\ req[s].route = "getById"
        /\ req[s].id = "not-a-uuid"
        /\ req[s].response.code = 400
        /\ Len(docs) = 1

(***************************************************************************)
(* Claims about the searches (checked under SpecSearch).                   *)
(***************************************************************************)
\* the search requests whose embedding call returned: top is settled and the
\* store query was issued
Searches == {s \in Requests : req[s].route \in SearchRoutes /\ req[s].storeCalls > 0}
\* the search requests answered 200
Answered == {s \in Searches : req[s].response.code = 200}
TopIsPositiveInteger(top) ==
    top.t = "number" /\ DOMAIN top = {"t", "v"} /\ top.v >= 1

\* C12: in each search handler the effective top handed to the store is 10
\* when the request's top is omitted, zero, negative or not an integer (a
\* numeric string included), and the request's top itself when it is a
\* positive integer.
C12_EffectiveTop ==
    \A s \in Searches :
        req[s].topResults =
            IF TopIsPositiveInteger(req[s].top) THEN req[s].top.v ELSE 10

\* a search with top 2.5 over three products was answered with all three
C12_Witness ==
    /\ req[1].route = "searchDescription"
    /\ req[1].top = Frac(2)
    /\ req[1].topResults = 10
    /\ req[1].response.code = 200
    /\ Len(req[1].response.data) = 3

\* the vector field each search route ranks on
RouteVectorKey(route) ==
    CASE route = "searchDescription" -> "descriptionVector"
      [] route = "searchTags" -> "tagsVector"
      [] route = "searchFeatures" -> "featuresVector"
EffectiveTop(top) == IF TopIsPositiveInteger(top) THEN top.v ELSE 10

\* C13: a search that succeeds returns what the store answers to the query
\* of its route with @top bound to the effective top: at most that many
\* results, and at most as many as there are stored documents.
C13_TopForwarded ==
    \A s \in Answered :
        /\ req[s].response.data =
               VectorQuery(docs, RouteVectorKey(req[s].route), req[s].vector,
                           EffectiveTop(req[s].top))
        /\ Len(req[s].response.data) <= EffectiveTop(req[s].top)
        /\ Len(req[s].response.data) <= Len(docs)

\* a search with top 2 over three products was answered with two of them
C13_Witness ==
    /\ req[1].route = "searchFeatures"
    /\ req[1].top = Num(2)
    /\ req[1].response.code = 200
    /\ Len(req[1].response.data) = 2
    /\ Len(docs) = 3

\* the score of the i-th result of a search
Score(r, i) == r.response.data[i].SimilarityScore
\* the score the stored document of the i-th result has on the field of the
\* route of the search
FieldScore(r, i) ==
    CosineSquared(DocWithId(docs, r.response.data[i].doc["id"].v)
                      [RouteVectorKey(r.route)].v,
                  r.vector.v)

Responded == {s \in Requests : req[s].pc = "responded"}
\* the messages a 400 answer of the handlers can carry
ValidationMessages ==
    {"Invalid product ID, should be a valid UUID",
     "Invalid tags. It should be an array of strings ie \"queryVector\" : [\"item\",\"item2\"].",
     "Invalid features. It should be an array of strings ie \"queryVector\" : [\"item\",\"item2\"]."}
\* the two shapes of an error response
ErrorListShape(res) ==
    res.errors # <<>> /\ res.message = "" /\ res.data = <<>> /\ res.code = 400
MessageShape(res) ==
    /\ res.errors = <<>> /\ res.data = <<>>
    /\ \/ res.code = 400 /\ res.message \in ValidationMessages
       \/ res.code = 404 /\ res.message = "Product not found"
       \/ res.code = 500 /\ res.message = "Internal Server Error"

\* C15: every response sent has status 'success' or 'error', 'success'
\* exactly when the code is 200 or 201; an error response is either a list
\* of validation errors with code 400 or a single fixed message with code
\* 400, 404 or 500, never both, and never carries what the caught error
\* said.
C15_ResponseEnvelope ==
    \A s \in Responded :
        LET res == req[s].response
        IN  /\ res.status \in {"success", "error"}
            /\ res.status = "success" <=> res.code \in {200, 201}
            /\ res.status = "success" => (res.message = "" /\ res.errors = <<>>)
            /\ res.status = "error" =>
                   /\ ErrorListShape(res) \/ MessageShape(res)
                   /\ ~(ErrorListShape(res) /\ MessageShape(res))

\* one request was answered by the errorHandler, another with a list of
\* validation errors
C15_Witness ==
    \E s, t \in Responded :
        /\ req[s].failed = "parse" /\ req[s].response.code = 500
        /\ req[t].route = "create" /\ Len(req[t].response.errors) = 3

\* the initialization the server started has failed
InitFailed == \E k \in 1..Len(initRun) : Settled(k) /\ Outcome(k) = "rejected"
\* the store is initialized and the services are attached to the app
Ready ==
    /\ initialized
    /\ productsContainer = "productsContainer"
    /\ services.present
    /\ services.container = "productsContainer"

\* C16: the server listens only once the store is initialized and the
\* services are attached, and requests are handled only then; when the
\* initialization fails the server never listens, and the process exits with
\* code 1 and stays exited.
C16_ListenOnlyWhenReady ==
    /\ [](server.pc = "listening" => Ready)
    /\ [](Requests # {} => (Ready /\ server.pc = "listening"))
    /\ [](InitFailed => server.pc \in {"awaitInit", "exited"})
    /\ [](server.pc = "exited" <=> server.exitCode = 1)
    /\ [][server.pc = "exited" => server'.pc = "exited"]_vars
    /\ (InitFailed ~> (server.pc = "exited" /\ server.exitCode = 1))

\* the container-creation call failed and the process has exited with code 1
C16_Witness ==
    /\ initRun = <<"containerFailed">>
    /\ server.pc = "exited"
    /\ server.exitCode = 1
    /\ ~initialized
    /\ Requests = {}

\* the fields of the SELECT list of getProducts
ListedFields ==
    {"id", "name", "brand", "sku", "category", "price", "currency", "stock",
     "description", "features", "rating", "reviewsCount", "tags", "imageUrl",
     "manufacturer", "model", "releaseDate", "warranty", "dimensions", "color",
     "material", "origin"}
DerivedVectors == {"descriptionVector", "tagsVector", "featuresVector"}
\* the part of a returned record that comes from the stored document
Projected(r, i) ==
    IF r.route = "list" THEN r.response.data[i] ELSE r.response.data[i].doc

StoredUnder(id) == {i \in 1..Len(docs) : docs[i]["id"] = id}
\* the creates whose id was taken when their store call was executed
Conflicts == {s \in Requests : req[s].route = "create" /\ req[s].failed = "conflict"}

\* C18: a create whose id is already in the collection fails with the
\* conflict error of the store and is answered 500; the document stored under
\* the id is the one the earlier create stored, and there is one only.
C18_ConflictIs500 ==
    \A s \in Conflicts :
        /\ req[s].pc = "responded"
        /\ req[s].response = InternalServerError
        /\ ~req[s].wrote
        /\ Cardinality(StoredUnder(req[s].product["id"])) = 1
        /\ \E j \in 1..Len(created) : created[j].id = req[s].product["id"].v
        /\ \A j \in 1..Len(created) :
               created[j].id = req[s].product["id"].v =>
                   DocWithId(docs, created[j].id) =
                       StoredProduct(created[j].body, created[j].id)
        /\ LET again == addProduct(services.container, docs, req[s].product,
                                   "ok", NoError)
           IN  again.threw /\ again.error = ConflictError /\ again.docs = docs

\* a second, different product was sent under the id of a stored one
C18_Witness ==
    \E s \in Conflicts :
        /\ req[s].product["id"] = Str("uuid-A")
        /\ req[s].response.code = 500
        /\ Len(docs) = 1
        /\ docs[1]["name"] # req[s].product["name"]

\* C19: in every reachable state no two stored documents have the same
\* id; and in every step the documents stored stay where they are with the
\* id they have.
C19_IdUniqueAndImmutable ==
    /\ [](\A i, j \in 1..Len(docs) : docs[i]["id"] = docs[j]["id"] => i = j)
    /\ [](\A i \in 1..Len(docs) : docs[i]["id"].t = "string" /\ IsUUID(docs[i]["id"].v))
    /\ [][/\ Len(docs') >= Len(docs)
          /\ \A i \in 1..Len(docs) : docs'[i]["id"] = docs[i]["id"]]_vars

\* a product with a client id and one with a generated id are stored, and a
\* third create found its id taken
C19_Witness ==
    /\ Len(docs) = 2
    /\ docs[1]["id"] = Str("uuid-A")
    /\ docs[2]["id"] = Str(GeneratedUUID(1))
    /\ Conflicts # {}

(***************************************************************************)
(* Claims about the calls of one createProduct request.                    *)
(***************************************************************************)
\* the embedding calls of a request that have neither returned nor thrown
Outstanding(r) == r.embedCalls - r.embedSettled

Creates == {s \in Slots : req[s].route = "create"}

\* C20: within one create request the embedding calls are issued one after
\* another in the order description, tags, features, each only after the
\* previous one has returned; two embedding calls of the same request are never
\* outstanding at once; the store create is issued only after the last
\* embedding call returned; after a failed embedding call no later embedding
\* call (and no store call) is issued.
C20_EmbeddingsSequential ==
    /\ [](\A s \in Creates :
            LET r == req[s]
            IN  /\ Outstanding(r) \in {0, 1}
                /\ Outstanding(r) = 1 <=> r.pc = "awaitEmbed"
                /\ r.embedCalls = Len(r.embedInputs)
                /\ r.embedCalls > 0 =>
                       r.embedInputs =
                           SubSeq(StageTexts(r.product, 1), 1, r.embedCalls)
                /\ r.storeCalls > 0 =>
                       /\ r.storeCalls = 1
                       /\ r.failed # "embedding"
                       /\ r.embedSettled = Len(StageTexts(r.product, 1))
                       /\ r.embedCalls = r.embedSettled
                /\ r.failed = "embedding" =>
                       r.pc = "responded" /\ r.storeCalls = 0)
    /\ [][\A s \in Creates :
            arrivals' = arrivals =>
                /\ req'[s].embedCalls \in {req[s].embedCalls, req[s].embedCalls + 1}
                /\ req'[s].embedCalls > req[s].embedCalls =>
                       /\ req'[s].embedSettled = req[s].embedCalls
                       /\ req'[s].failed = "none"
                /\ req'[s].storeCalls > req[s].storeCalls =>
                       /\ req'[s].embedSettled = req'[s].embedCalls
                       /\ req'[s].failed = "none"
                /\ req[s].failed = "embedding" =>
                       /\ req'[s].embedCalls = req[s].embedCalls
                       /\ req'[s].storeCalls = req[s].storeCalls]_vars

\* one request has had its three embedding calls return and issued its store
\* call, another stopped at a failed second embedding call
C20_Witness ==
    \E s, t \in Creates :
        /\ req[s].embedCalls = 3 /\ req[s].embedSettled = 3
        /\ req[s].pc = "awaitStore" /\ req[s].storeCalls = 1
        /\ req[t].failed = "embedding" /\ req[t].embedCalls = 2
        /\ Len(StageTexts(req[t].product, 1)) = 3

(***************************************************************************)
(* Claims about the vectors of a create (checked under SpecVectors).       *)
(***************************************************************************)
\* the non-empty text of a payload's field, as a sequence of zero or one
\* embedding inputs
TextOf(val) == IF val.t = "string" /\ val.v # "" THEN <<val>> ELSE <<>>
TagsTextOf(val) ==
    IF val.t = "array" /\ Len(val.v) > 0 THEN <<Str(JoinSpace(val.v))>> ELSE <<>>
\* the embedding inputs a payload calls for, in the order of the handler
ExpectedInputs(body) ==
    TextOf(body["description"]) \o TagsTextOf(body["tags"]) \o TextOf(body["features"])
\* the creates that have issued their store call
StoreIssued == {s \in ValidCreates : req[s].storeCalls > 0}

\* C21: during create an embedding call is issued for description exactly
\* when it is a non-empty string, for tags exactly when the array is
\* non-empty (the input being the tags joined by single spaces), for features
\* exactly when it is a non-empty string; each returned vector is attached to
\* its matching field only.
C21_EmbeddingPerNonEmptyText ==
    \A s \in ValidCreates :
        LET r == req[s]
            expected == ExpectedInputs(r.body)
        IN  /\ r.embedCalls <= Len(expected)
            /\ r.embedInputs = SubSeq(expected, 1, r.embedCalls)
            /\ s \in StoreIssued =>
                   /\ r.embedInputs = expected
                   /\ TextOf(r.body["description"]) # <<>> =>
                          r.product["descriptionVector"] =
                              EmbeddingOf(r.body["description"])
                   /\ TagsTextOf(r.body["tags"]) # <<>> =>
                          r.product["tagsVector"] =
                              EmbeddingOf(TagsTextOf(r.body["tags"])[1])
                   /\ TextOf(r.body["features"]) # <<>> =>
                          r.product["featuresVector"] =
                              EmbeddingOf(r.body["features"])
                   /\ \A k \in SchemaKeys \ (DerivedVectors \cup {"id"}) :
                          r.product[k] = r.body[k]

\* a payload with a description, two tags and no features has embedded the
\* description and "charging wireless" and nothing else, and is stored with
\* the two vectors
C21_Witness ==
    \E s \in StoreIssued :
        /\ req[s].body["features"] = Str("")
        /\ req[s].body["featuresVector"] = Undefined
        /\ req[s].embedInputs = <<Str("Smart LED light bulbs"), Str("charging wireless")>>
        /\ req[s].response.code = 201
        /\ Returned(req[s])["descriptionVector"] = Arr(<<Num(2), Num(1)>>)
        /\ Returned(req[s])["tagsVector"] = Arr(<<Num(1), Num(2)>>)
        /\ Returned(req[s])["featuresVector"] = Undefined

(***************************************************************************)
(* Claims about the calls a request issues (checked under Spec).           *)
(***************************************************************************)
\* C22 as stated: in each search handler the vector the embedding call
\* returned is an array of numbers whenever the store query has been issued;
\* when it is not one, the store is not queried.
C22_VectorValidatedBeforeQuery ==
    \A s \in Searches : IsNumberArray(req[s].vector)
\* the searches whose input is well formed
ValidSearches == {s \in Requests : req[s].route \in SearchRoutes /\ ~Malformed(req[s])}

\* C23: every remote call is issued at most once per request and a failed
\* call is never reissued: a search with valid input issues exactly one
\* embedding call and at most one store query, a create at most three
\* embedding calls and at most one store create; the number of embedding calls
\* of a request depends on its own input only, so a repeated request with
\* identical text embeds again.
C23_NoRetryNoCache ==
    /\ [](\A s \in Requests :
            /\ s \in ValidSearches =>
                   /\ req[s].embedCalls = 1
                   /\ req[s].embedInputs =
                          <<IF req[s].route = "searchDescription" THEN req[s].query
                            ELSE Str(JoinSpace(req[s].query.v))>>
                   /\ req[s].storeCalls <= 1
            /\ req[s].route = "create" =>
                   /\ req[s].embedCalls <= 3
                   /\ req[s].storeCalls <= 1
                   /\ (s \in ValidCreates /\ req[s].storeCalls = 1) =>
                          req[s].embedCalls = Len(ExpectedInputs(req[s].body))
            /\ req[s].route \in {"list", "getById"} =>
                   req[s].embedCalls = 0 /\ req[s].storeCalls <= 1)
    /\ [][\A s \in Requests :
            (arrivals' = arrivals /\ req[s].failed # "none") =>
                /\ req'[s].embedCalls = req[s].embedCalls
                /\ req'[s].storeCalls = req[s].storeCalls]_vars

\* two searches with the same tags are at hand: each has issued its own
\* embedding call and its own store query
C23_Witness ==
    /\ req[1].route = "searchTags" /\ req[2].route = "searchTags"
    /\ req[1].query = Arr(<<Str("charging"), Str("wireless")>>)
    /\ req[2].query = req[1].query
    /\ req[1].embedInputs = <<Str("charging wireless")>>
    /\ req[2].embedInputs = <<Str("charging wireless")>>
    /\ req[1].response.code = 200
    /\ req[2].storeCalls = 1
(***************************************************************************)
(* Claims about failures (checked under Spec).  Two requests at hand at    *)
(* the same time stand for two runs of the same route.                     *)
(***************************************************************************)
\* the requests one of whose calls threw
Thrown == {s \in Requests : req[s].error # NoError}
\* the call of its handler a request is at: the route and the calls issued
StepOf(r) == <<r.route, r.embedCalls, r.storeCalls>>

\* C24 as stated: for any two upstream failures with different error contents
\* at the same step of the same route, the responses are identical, status
\* 500 and message 'Internal Server Error'.
C24_ErrorContentNeverInfluences ==
    \A s, t \in Thrown :
        (StepOf(req[s]) = StepOf(req[t]) /\ req[s].error # req[t].error) =>
            /\ req[s].response = req[t].response
            /\ req[s].response = JsonMessage(500, "Internal Server Error")
(***************************************************************************)
(* Claims about what requests leave unchanged (checked under Spec).        *)
(***************************************************************************)
\* a step of a request handler: a request arrives or a handler resumes
HandlerStep == req' # req

\* C25: after initialization has completed no request handler changes the
\* store singleton: initialized stays true, and the container reference held
\* by the singleton and by the product service stays the same, under any
\* sequence and interleaving of requests.
C25_SingletonReadOnly ==
    /\ [][initialized =>
              initialized' /\ productsContainer' = productsContainer]_vars
    /\ [][services.present => services' = services]_vars
    /\ [][HandlerStep =>
              /\ initialized /\ initialized'
              /\ UNCHANGED <<cosmosVars, services>>
              /\ services.container = productsContainer]_vars

\* three requests, two of them at hand together, have been answered, one by
\* a product stored, and the singleton is as initialization left it
C25_Witness ==
    /\ arrivals = MaxRequests
    /\ \A s \in Slots : req[s].pc = "responded"
    /\ Len(docs) = 1
    /\ initialized /\ productsContainer = "productsContainer"
    /\ services = [present |-> TRUE, container |-> "productsContainer"]
    /\ initializing = 1 /\ initRun = <<"fulfilled">>
\* the routes that read the collection
ReadRoutes == {"list", "getById"} \cup SearchRoutes
\* the create of slot s is answered 201 in this step
CreateSucceeds(s) ==
    /\ req[s].route = "create" /\ req[s].pc = "awaitStore"
    /\ req'[s].response.code = 201

\* C26: getById, list and the three searches leave the contents of the
\* collection unchanged, and no operation modifies or removes a stored
\* document: the stored documents only grow, by exactly one document per
\* successful create.
C26_CollectionOnlyGrows ==
    /\ [][/\ Len(docs') \in {Len(docs), Len(docs) + 1}
          /\ SubSeq(docs', 1, Len(docs)) = docs]_vars
    /\ [][\A s \in Slots :
              /\ (req[s].route \in ReadRoutes /\ req'[s] # req[s]
                      /\ arrivals' = arrivals) => docs' = docs
              /\ arrivals' # arrivals => docs' = docs
              /\ CreateSucceeds(s) => docs' = Append(docs, req[s].product)]_vars
    /\ [][docs' # docs => \E s \in Slots : CreateSucceeds(s)]_vars
    /\ [](Len(docs) = Len(created))

\* two products are stored and a later read of the first has been answered
\* with it
C26_Witness ==
    /\ Len(docs) = 2
    /\ \E s \in Requests :
           /\ req[s].route = "getById" /\ req[s].response.code = 200
           /\ req[s].createdBefore = 2
           /\ Returned(req[s]) = docs[1]
(***************************************************************************)
(* Claims about the answer of a request (checked under SpecSettling).      *)
(***************************************************************************)
\* the handler of the request is suspended in a remote call
Suspended(r) == r.pc \in {"awaitEmbed", "awaitStore"}

\* C27 as stated: every request that reaches a handler is eventually
\* answered with a response, every remote call it issues eventually returning
\* or failing; also when the embedding call of a search request fails.
C27_EventuallyAnswered ==
    \A s \in Slots :
        (req[s].route # "none" /\ Suspended(req[s])) ~>
            (req[s].pc = "responded" /\ req[s].response.code # 0)
(***************************************************************************)
(* Claims about a failed initialization (checked under SpecInit).          *)
(***************************************************************************)
\* the first run of init() has failed
FirstInitFailed ==
    Len(initRun) >= 1 /\ initRun[1] \in {"databaseFailed", "containerFailed"}

\* C28: if the first store initialization fails the in-flight guard is never
\* cleared: every later initialize() call returns the same failure without
\* issuing a new call to the store, initialized stays false, and
\* getProductsContainer keeps throwing the not-initialized error.
C28_FailedInitIsFinal ==
    /\ [](FirstInitFailed =>
            /\ ~initialized
            /\ initializing = 1 /\ Len(initRun) = 1
            /\ getProductsContainer.threw
            /\ getProductsContainer.error = NotInitializedError
            /\ \A c \in Callers :
                   /\ caller[c].pc = "awaiting" => caller[c].awaits = 1
                   /\ caller[c].outcome \in {"none", "rejected"}
            /\ probe.op # "none" =>
                   /\ probe.threw /\ ~probe.issued
                   /\ probe.error = NotInitializedError)
    /\ [][FirstInitFailed =>
              /\ initRun' = initRun
              /\ initializing' = initializing
              /\ dbCreateCalls' = dbCreateCalls
              /\ containerCreateCalls' = containerCreateCalls
              /\ docs' = docs]_vars

\* the container creation of the first run failed; initialize() has been
\* called four times, at least once after the failure, every caller saw the
\* rejection, a store operation was tried, and the store was called once
\* for the database and once for the container
C28_Witness ==
    /\ initRun = <<"containerFailed">>
    /\ initCalls = MaxInitCalls
    /\ \A c \in Callers : caller[c].pc = "idle" /\ caller[c].outcome = "rejected"
    /\ probe.op = "create" /\ probe.error = NotInitializedError
    /\ dbCreateCalls = 1 /\ containerCreateCalls = 1
(***************************************************************************)
(* Claims about creates that compete for an id (checked under SpecIds).    *)
(***************************************************************************)
\* two answered creates at hand whose payloads carry the same id
SameIdPairs ==
    {p \in Slots \X Slots :
        /\ p[1] < p[2]
        /\ p[1] \in ValidCreates /\ p[2] \in ValidCreates
        /\ req[p[1]].body["id"] # Undefined
        /\ req[p[1]].body["id"] = req[p[2]].body["id"]
        /\ req[p[1]].pc = "responded" /\ req[p[2]].pc = "responded"}
\* no create under the id of the request had been answered 201 when it arrived
IdFreeAtArrival(r) ==
    \A i \in 1..r.createdBefore : created[i].id # r.body["id"].v
\* a remote call of the request failed on its own account
UpstreamFailed(r) == r.failed \in {"embedding", "store"}
\* a create that is neither of the two has stored a product under their id
ThirdStored(a, b) ==
    /\ \E i \in 1..Len(created) : created[i].id = a.body["id"].v
    /\ a.response.code # 201 /\ b.response.code # 201
\* exactly one of the two is answered 201, the other 500
OneWins(a, b) ==
    \/ a.response.code = 201 /\ b.response = InternalServerError
    \/ b.response.code = 201 /\ a.response = InternalServerError

\* C29 as stated: of two creates with the same client id handled
\* concurrently (the only two requests accepted so far), exactly one is
\* answered 201 and the other 500, and exactly one document with the id is
\* stored.
C29_ExactlyOneCreated ==
    \A p \in SameIdPairs :
        arrivals = 2 =>
            /\ OneWins(req[p[1]], req[p[2]])
            /\ Cardinality(StoredUnder(req[p[1]].body["id"])) = 1

\* C29 amended: of two such creates at most one is answered 201, the other
\* 500, and at most one document with the id is stored; when the id was not
\* stored before, no third create stores it meanwhile and no remote call of
\* either fails on its own account, exactly one is answered 201, the other
\* 500 on the conflict, and the document stored is the one of the request
\* answered 201.
C29_AtMostOneCreated ==
    \A p \in SameIdPairs :
        LET a == req[p[1]]
            b == req[p[2]]
            stored == StoredUnder(a.body["id"])
            winner == IF a.response.code = 201 THEN a ELSE b
            loser == IF a.response.code = 201 THEN b ELSE a
        IN  /\ ~(a.response.code = 201 /\ b.response.code = 201)
            /\ {a.response.code, b.response.code} \subseteq {201, 500}
            /\ Cardinality(stored) <= 1
            /\ OneWins(a, b) =>
                   /\ Cardinality(stored) = 1
                   /\ \A i \in stored : docs[i] = Returned(winner)
            /\ (/\ IdFreeAtArrival(a) /\ IdFreeAtArrival(b)
                /\ ~UpstreamFailed(a) /\ ~UpstreamFailed(b)
                /\ ~ThirdStored(a, b)) =>
                   /\ OneWins(a, b)
                   /\ loser.failed = "conflict"

\* two different products under the same id were at hand together: the one
\* that arrived second is stored and answered 201, the first is answered 500
C29_Witness ==
    /\ arrivals = 2
    /\ <<1, 2>> \in SameIdPairs
    /\ req[1].body["name"] # req[2].body["name"]
    /\ req[1].failed = "conflict" /\ req[1].response = InternalServerError
    /\ req[2].response.code = 201
    /\ docs = <<req[2].product>>
(***************************************************************************)
(* Claims about the client's own vectors (checked under SpecVectors).      *)
(***************************************************************************)
\* the creates answered 201
Created == {s \in ValidCreates : req[s].response.code = 201}
\* the document stored for a create answered 201
StoredFor(r) == DocWithId(docs, Returned(r)["id"].v)
\* the vector stored under key is the client's when the text is empty, the
\* computed one when it is not
VerbatimOrComputed(r, key, text) ==
    IF text = <<>> THEN StoredFor(r)[key] = r.body[key]
    ELSE StoredFor(r)[key] = EmbeddingOf(text[1])

\* C30: a vector the client supplies in a create payload is replaced by the
\* computed one whenever its source text is non-empty and is stored verbatim
\* when its source text is empty; a client-supplied imageVector or
\* dimensionsVector is always stored verbatim.
C30_ClientVectors ==
    \A s \in Created :
        LET r == req[s]
        IN  /\ HasId(docs, Returned(r)["id"].v)
            /\ VerbatimOrComputed(r, "descriptionVector", TextOf(r.body["description"]))
            /\ VerbatimOrComputed(r, "tagsVector", TagsTextOf(r.body["tags"]))
            /\ VerbatimOrComputed(r, "featuresVector", TextOf(r.body["features"]))
            /\ StoredFor(r)["imageVector"] = r.body["imageVector"]
            /\ StoredFor(r)["dimensionsVector"] = r.body["dimensionsVector"]

\* a payload with a description, no tags and no features, and five vectors
\* of the client's own, is stored with the computed descriptionVector and the
\* client's four other vectors
C30_Witness ==
    \E s \in Created :
        /\ req[s].body["description"] = Str("Smart LED light bulbs")
        /\ req[s].body["tags"] = Arr(<<>>)
        /\ req[s].body["features"] = Str("")
        /\ req[s].body["descriptionVector"] = Arr(<<Num(3), Num(4)>>)
        /\ StoredFor(req[s])["descriptionVector"] = Arr(<<Num(2), Num(1)>>)
        /\ StoredFor(req[s])["tagsVector"] = Arr(<<Num(3), Num(6)>>)
        /\ StoredFor(req[s])["featuresVector"] = Arr(<<Num(3), Num(7)>>)
        /\ StoredFor(req[s])["imageVector"] = Arr(<<Num(3), Num(5)>>)
        /\ StoredFor(req[s])["dimensionsVector"] = Arr(<<Num(3), Num(8)>>)

====
